---- MODULE Spec2Model ----
(***************************************************************************)
(* Verification model of the mc client core: the configuration migration   *)
(* pipeline (config-migrate.go), the location URL model (pkg/client url),  *)
(* and the copy-syntax classifier (cp-url-syntax.go, common-methods.go).   *)
(*                                                                         *)
(* Strings are TLA+ strings; the Go string functions are computed on them  *)
(* character by character with Len, SubSeq and \o.                         *)
(***************************************************************************)
EXTENDS Integers, Sequences, FiniteSets, TLC

VARIABLES
    config,     \* the persisted config document: [exists, obj], obj the JSON object
    cur,        \* the running call of migrateConfig / fixConfig: [fn, pc, before, saves]
    log,        \* the completed calls, oldest first: [fn, before, after, saves]
    step,       \* the migration step executed last: [op, before, saved]
    goos,       \* runtime.GOOS of the build
    parse,      \* a location string on its way through NewURL, String and NewURL:
                \* [pc, urlStr, url, str, url2]
    join,       \* a call of JoinURLs: [pc, url1Str, url2Str, url1, url2, parent]
    args,       \* the arguments of mc cp: [srcURLs, tgtURL, isRecursive]
    stat,       \* the storage behind the arguments: what url2Stat finds at each URL
    cp,         \* the position of checkCopySyntax: [pc, copyURLsType, branch, exit, stats],
                \* stats the calls of url2Stat made: <<calling function, URL>>
    resolve,   \* a bucket label and key resolved on a virtual-host and on a path-style host
    s3Clnt,    \* the s3Client: [hostURL, virtualStyle]
    api,       \* the backend behind c.api: [buckets, objects, statObject, bucketExists]
    mu,        \* c.mu: 0 when unlocked, else the caller that holds it
    calls,     \* the callers of Stat and List: [op, recursive, incomplete, pc, unlocks, prefixName, ret]
    chans,     \* the channel and the routine of each List: [made, routine, pc, contents, sent, closes]
    mb,        \* mc mb: [pc, URLs, i, attempts, msgs]
    trip,      \* an entry of a listing and the names its location resolves to
    add        \* the run of mc config add alias

vars == <<config, cur, log, step, goos, parse, join, args, stat, cp, resolve,
          s3Clnt, api, mu, calls, chans,
         mb,
         trip,
         add>>

(***************************************************************************)
(* Go package strings.                                                     *)
(***************************************************************************)
Char(s, i) == SubSeq(s, i, i)

HasPrefix(s, p) == Len(s) >= Len(p) /\ SubSeq(s, 1, Len(p)) = p

HasSuffix(s, p) == Len(s) >= Len(p) /\ SubSeq(s, Len(s) - Len(p) + 1, Len(s)) = p

\* strings.Index, 1-based; 0 when d does not occur (Go: -1)
Index(s, d) ==
    LET hits == {i \in 1..(Len(s) - Len(d) + 1) : SubSeq(s, i, i + Len(d) - 1) = d}
    IN  IF hits = {} THEN 0 ELSE CHOOSE i \in hits : \A j \in hits : i <= j

\* strings.LastIndex, 1-based; 0 when d does not occur
LastIndex(s, d) ==
    LET hits == {i \in 1..(Len(s) - Len(d) + 1) : SubSeq(s, i, i + Len(d) - 1) = d}
    IN  IF hits = {} THEN 0 ELSE CHOOSE i \in hits : \A j \in hits : i >= j

Contains(s, d) == Index(s, d) # 0

TrimPrefix(s, p) == IF HasPrefix(s, p) THEN SubSeq(s, Len(p) + 1, Len(s)) ELSE s


\* strings.Split(s, d) for a non-empty d: the pieces between the
\* non-overlapping occurrences of d, found left to right
RECURSIVE Split(_, _)
Split(s, d) ==
    LET i == Index(s, d)
    IN  IF i = 0 THEN <<s>>
        ELSE <<SubSeq(s, 1, i - 1)>> \o Split(SubSeq(s, i + Len(d), Len(s)), d)

\* strings.Replace(s, old, new, -1) for a one-character old
RECURSIVE ReplaceAll(_, _, _)
ReplaceAll(s, old, new) ==
    IF Len(s) = 0 THEN s
    ELSE (IF Char(s, 1) = old THEN new ELSE Char(s, 1))
            \o ReplaceAll(SubSeq(s, 2, Len(s)), old, new)

UpperLetters == "ABCDEFGHIJKLMNOPQRSTUVWXYZ"
LowerLetters == "abcdefghijklmnopqrstuvwxyz"

IsLetter(c) == \E i \in 1..26 : c = Char(UpperLetters, i) \/ c = Char(LowerLetters, i)

\* unicode.ToLower on ASCII
lowerOf ==
    [c \in {Char(UpperLetters, i) : i \in 1..26} |->
        Char(LowerLetters, CHOOSE i \in 1..26 : c = Char(UpperLetters, i))]

ToLowerChar(c) == IF c \in DOMAIN lowerOf THEN lowerOf[c] ELSE c

\* strings.EqualFold on ASCII strings
EqualFold(a, b) ==
    /\ Len(a) = Len(b)
    /\ \A i \in 1..Len(a) : ToLowerChar(Char(a, i)) = ToLowerChar(Char(b, i))

(***************************************************************************)
(* pkg/client: the location URL model.                                     *)
(***************************************************************************)
Object == "Object"
Filesystem == "Filesystem"

\* filepath.Separator
filepathSeparator == IF goos = "windows" THEN "\\" ELSE "/"

\* regexp ^[a-zA-Z]+$
validScheme(scheme) ==
    Len(scheme) > 0 /\ \A i \in 1..Len(scheme) : IsLetter(Char(scheme, i))

\* <<scheme, path>>
getScheme(rawurl) ==
    LET urlSplits == Split(rawurl, "://")
    IN  IF Len(urlSplits) = 2
        THEN LET scheme == urlSplits[1]
                 uri == "//" \o urlSplits[2]
             IN  IF uri # "" /\ validScheme(scheme)
                 THEN <<scheme, uri>>
                 ELSE <<"", rawurl>>
        ELSE <<"", rawurl>>

splitSpecial(s, delimiter, cutdelimiter) ==
    LET i == Index(s, delimiter)
    IN  IF i = 0 THEN <<s, "">>
        ELSE IF cutdelimiter
             THEN <<SubSeq(s, 1, i - 1), SubSeq(s, i + Len(delimiter), Len(s))>>
             ELSE <<SubSeq(s, 1, i - 1), SubSeq(s, i, Len(s))>>

getHost(authority) == IF LastIndex(authority, "@") # 0 THEN "" ELSE authority

NewURL(urlStr) ==
    LET scheme == getScheme(urlStr)[1]
        rest0 == splitSpecial(getScheme(urlStr)[2], "?", TRUE)[1]
        fs(path) == [Type |-> Filesystem, Scheme |-> "", Host |-> "", Path |-> path,
                     SchemeSeparator |-> "", Separator |-> filepathSeparator]
    IN  IF HasPrefix(rest0, "//")
        THEN LET sp == splitSpecial(SubSeq(rest0, 3, Len(rest0)), "/", FALSE)
                 authority == sp[1]
                 rest == IF sp[2] = "" THEN "/" ELSE sp[2]
                 host == getHost(authority)
             IN  IF host # "" /\ (scheme = "http" \/ scheme = "https")
                 THEN [Type |-> Object, Scheme |-> scheme, Host |-> host, Path |-> rest,
                       SchemeSeparator |-> "://", Separator |-> "/"]
                 ELSE fs(rest)
        ELSE fs(rest0)

\* the value of url1 after JoinURLs(url1, url2), which it also returns
JoinURLs(url1, url2) ==
    LET url1Path == IF goos = "windows" THEN ReplaceAll(url1.Path, "\\", "/") ELSE url1.Path
        url2Path == IF goos = "windows" THEN ReplaceAll(url2.Path, "\\", "/") ELSE url2.Path
        joined == IF HasSuffix(url1Path, "/")
                  THEN url1Path \o TrimPrefix(url2Path, "/")
                  ELSE url1Path \o "/" \o TrimPrefix(url2Path, "/")
    IN  IF url1.Type = Object THEN [url1 EXCEPT !.Path = joined]
        ELSE IF url1.Type = Filesystem
             THEN [url1 EXCEPT !.Path = IF goos = "windows"
                                        THEN ReplaceAll(joined, "/", "\\")
                                        ELSE joined]
             ELSE url1

\* URL.String
String(u) ==
    IF u.Type = Filesystem THEN u.Path
    ELSE IF u.Type = Object
         THEN u.Scheme \o ":" \o "//" \o u.Host
              \o (IF goos = "windows"
                  THEN (IF u.Path # "" /\ Char(u.Path, 1) # "\\" /\ u.Host # ""
                           /\ Char(u.Path, 1) # "/"
                        THEN "/" ELSE "") \o ReplaceAll(u.Path, "\\", "/")
                  ELSE (IF u.Path # "" /\ Char(u.Path, 1) # "/" /\ u.Host # ""
                        THEN "/" ELSE "") \o u.Path)
         ELSE ""

\* url := new(client.URL): every field its zero value, Type 0 = Object
newURL ==
    [Type |-> Object, Scheme |-> "", Host |-> "", Path |-> "",
     SchemeSeparator |-> "", Separator |-> ""]

(***************************************************************************)
(* Bounds of the model.                                                    *)
(***************************************************************************)
MaxCalls == 2     \* calls of migrateConfig / fixConfig in one behaviour
MaxHosts == 2     \* host entries of the initial document
MaxChunks == 4    \* pieces a location string is made of
MaxPath == 3      \* pieces the path of a joined location is made of
MaxSources == 2   \* source arguments of mc cp
MaxLabel == 2     \* pieces a bucket label is made of
MaxBuckets == 2   \* buckets the backend enumerates
MaxKeys == 2      \* keys the backend enumerates
MaxTargets == 2   \* target arguments of mc mb

(***************************************************************************)
(* The config structs and their JSON encoding.  A struct value is a record *)
(* of its Go fields; a type gives the JSON name of every field (its json   *)
(* tag, or the Go field name when it has no tag).                          *)
(***************************************************************************)
\* configV2, configV101, configV1: no json tags
configV2 ==
    [top  |-> [Version |-> "Version", Aliases |-> "Aliases", Hosts |-> "Hosts"],
     host |-> [AccessKeyID |-> "AccessKeyID", SecretAccessKey |-> "SecretAccessKey"]]

configV101 == configV2

configV1 == configV2

configV3 ==
    [top  |-> [Version |-> "version", Aliases |-> "alias", Hosts |-> "hosts"],
     host |-> [AccessKeyID |-> "access-key-id", SecretAccessKey |-> "secret-access-key"]]

configV4 ==
    [top  |-> [Version |-> "version", Aliases |-> "alias", Hosts |-> "hosts"],
     host |-> [AccessKeyID |-> "accessKeyId", SecretAccessKey |-> "secretAccessKey",
               Signature |-> "signature"]]

\* hostConfig: the per-host struct of configV5 and configV6
hostConfig ==
    [AccessKeyID |-> "accessKeyId", SecretAccessKey |-> "secretAccessKey", API |-> "api"]

configV5 ==
    [top  |-> [Version |-> "version", Aliases |-> "alias", Hosts |-> "hosts"],
     host |-> hostConfig]

configV6 == configV5

\* the local type of fixConfigV3: no json tags, two extra fields
brokenConfigV3 ==
    [top  |-> [Version |-> "Version", ACL |-> "ACL", Access |-> "Access",
               Aliases |-> "Aliases", Hosts |-> "Hosts"],
     host |-> [AccessKeyID |-> "AccessKeyID", SecretAccessKey |-> "SecretAccessKey"]]

EmptyMap == <<>>

\* the value newConfigVn() hands to the decoder: the version preset, empty maps
newConfig(version) == [Version |-> version, Aliases |-> EmptyMap, Hosts |-> EmptyMap]

newConfigV1 == newConfig("1.0.0")
newConfigV101 == newConfig("1.0.1")
newConfigV2 == newConfig("2")
newConfigV3 == newConfig("3")
newConfigV4 == newConfig("4")
newConfigV5 == newConfig("5")
newConfigV6 == newConfig("6")

\* conf := new(brokenConfigV3) with the two maps allocated
newBrokenConfigV3 ==
    [Version |-> "", ACL |-> "", Access |-> "", Aliases |-> EmptyMap, Hosts |-> EmptyMap]

\* encoding/json: the value of the JSON key that matches a field name, exactly
\* or else case-insensitively; the field keeps its old value without a match
FieldOf(obj, name, old) ==
    IF name \in DOMAIN obj THEN obj[name]
    ELSE LET ks == {k \in DOMAIN obj : EqualFold(k, name)}
         IN  IF ks = {} THEN old ELSE obj[CHOOSE k \in ks : TRUE]

\* json.Unmarshal of the JSON object obj into the struct value init of a type
Unmarshal(obj, type, init) ==
    [f \in DOMAIN type.top |->
        IF f = "Hosts"
        THEN LET hs == FieldOf(obj, type.top[f], EmptyMap)
             IN  [h \in DOMAIN hs |->
                    [g \in DOMAIN type.host |-> FieldOf(hs[h], type.host[g], "")]]
        ELSE FieldOf(obj, type.top[f], init[f])]

\* json.Marshal of a struct value of a type: every field under its JSON name
Marshal(val, type) ==
    [k \in {type.top[f] : f \in DOMAIN type.top} |->
        LET f == CHOOSE f \in DOMAIN type.top : type.top[f] = k
        IN  IF f = "Hosts"
            THEN [h \in DOMAIN val.Hosts |->
                    [j \in {type.host[g] : g \in DOMAIN type.host} |->
                        val.Hosts[h][CHOOSE g \in DOMAIN type.host : type.host[g] = j]]]
            ELSE val[f]]

\* quick.Load(path, data): the stored document decoded into data
quickLoad(type, init) == Unmarshal(config.obj, type, init)

\* config.Save(path): the document that replaces the stored one
quickSave(val, type) == [exists |-> TRUE, obj |-> Marshal(val, type)]

isMcConfigExists == config.exists

\* the process-wide default credentials and the current schema version
globalAccessKeyID == "YOUR-ACCESS-KEY-ID-HERE"
globalSecretAccessKey == "YOUR-SECRET-ACCESS-KEY-HERE"
globalMCConfigVersion == "6"

(***************************************************************************)
(* config-migrate.go: the migration steps and the fix-up passes.  Each     *)
(* operator gives the set of outcomes [saved, config] of one function on   *)
(* the stored document; a set with several members where the outcome       *)
(* depends on the order in which range visits a map.                       *)
(***************************************************************************)
Put(m, k, v) == [x \in DOMAIN m \cup {k} |-> IF x = k THEN v ELSE m[x]]

Delete(m, k) == [x \in DOMAIN m \ {k} |-> m[x]]

\* the function returned without saving
NoSave == [saved |-> FALSE, config |-> config]

\* the function saved val, a struct value of the given type
Saved(val, type) == [saved |-> TRUE, config |-> quickSave(val, type)]

\* lines 225-247: the host entries seeded by 1.0.0 -> 1.0.1
seedHostsV101(hosts) ==
    LET localHostConfig == [AccessKeyID |-> "", SecretAccessKey |-> ""]
        s3HostConf == [AccessKeyID |-> globalAccessKeyID,
                       SecretAccessKey |-> globalSecretAccessKey]
        seeds == [h \in {"localhost:*", "127.0.0.1:*", "*.s3*.amazonaws.com"} |->
                    IF h = "*.s3*.amazonaws.com" THEN s3HostConf ELSE localHostConfig]
    IN  [h \in DOMAIN hosts \cup DOMAIN seeds |->
            IF h \in DOMAIN hosts THEN hosts[h] ELSE seeds[h]]

\* V1ToV101 without the test of isMcConfigExists: the decoder is handed
\* newConfigV1() and no stored field replaces its version tag
V1ToV101_noExistsCheck ==
    LET mcConfigV1 == quickLoad(configV1, newConfigV1)
    IN  IF mcConfigV1.Version = "1.0.0"
        THEN {Saved([mcConfigV1 EXCEPT !.Version = "1.0.1",
                                       !.Hosts = seedHostsV101(@)], configV1)}
        ELSE {NoSave}

V1ToV101 ==
    IF ~isMcConfigExists THEN {NoSave}
    ELSE LET mcConfigV1 == quickLoad(configV1, newConfigV1)
         IN  IF mcConfigV1.Version = "1.0.0"
             THEN {Saved([mcConfigV1 EXCEPT !.Version = "1.0.1",
                                            !.Hosts = seedHostsV101(@)], configV1)}
             ELSE {NoSave}

\* V101ToV2 without the test of the version tag
V101ToV2_unguarded ==
    IF ~isMcConfigExists THEN {NoSave}
    ELSE {Saved([quickLoad(configV101, newConfigV101) EXCEPT !.Version = "2"], configV101)}

V101ToV2 ==
    IF ~isMcConfigExists THEN {NoSave}
    ELSE LET mcConfigV101 == quickLoad(configV101, newConfigV101)
         IN  IF mcConfigV101.Version = "1.0.1"
             THEN {Saved([mcConfigV101 EXCEPT !.Version = "2"], configV101)}
             ELSE {NoSave}

\* V2ToV3 without "newHostConf.SecretAccessKey = hostConf.SecretAccessKey"
V2ToV3_noSecret ==
    IF ~isMcConfigExists THEN {NoSave}
    ELSE LET mcConfigV2 == quickLoad(configV2, newConfigV2)
             confV3 == [Version |-> "3",
                        Aliases |-> mcConfigV2.Aliases,
                        Hosts   |-> [host \in DOMAIN mcConfigV2.Hosts |->
                            [AccessKeyID     |-> mcConfigV2.Hosts[host].AccessKeyID,
                             SecretAccessKey |-> ""]]]
         IN  IF mcConfigV2.Version = "2" THEN {Saved(confV3, configV3)} ELSE {NoSave}

V2ToV3 ==
    IF ~isMcConfigExists THEN {NoSave}
    ELSE LET mcConfigV2 == quickLoad(configV2, newConfigV2)
             confV3 == [Version |-> "3",
                        Aliases |-> mcConfigV2.Aliases,
                        Hosts   |-> [host \in DOMAIN mcConfigV2.Hosts |->
                            [AccessKeyID     |-> mcConfigV2.Hosts[host].AccessKeyID,
                             SecretAccessKey |-> mcConfigV2.Hosts[host].SecretAccessKey]]]
         IN  IF mcConfigV2.Version = "2" THEN {Saved(confV3, configV3)} ELSE {NoSave}

\* V3ToV4 with the test of the version tag turned into "not yet 4"
V3ToV4_notYet4 ==
    IF ~isMcConfigExists THEN {NoSave}
    ELSE LET mcConfigV3 == quickLoad(configV3, newConfigV3)
             confV4 == [Version |-> "4",
                        Aliases |-> mcConfigV3.Aliases,
                        Hosts   |-> [host \in DOMAIN mcConfigV3.Hosts |->
                            [AccessKeyID     |-> mcConfigV3.Hosts[host].AccessKeyID,
                             SecretAccessKey |-> mcConfigV3.Hosts[host].SecretAccessKey,
                             Signature       |-> "v4"]]]
         IN  IF mcConfigV3.Version # "4" THEN {Saved(confV4, configV4)} ELSE {NoSave}

V3ToV4 ==
    IF ~isMcConfigExists THEN {NoSave}
    ELSE LET mcConfigV3 == quickLoad(configV3, newConfigV3)
             confV4 == [Version |-> "4",
                        Aliases |-> mcConfigV3.Aliases,
                        Hosts   |-> [host \in DOMAIN mcConfigV3.Hosts |->
                            [AccessKeyID     |-> mcConfigV3.Hosts[host].AccessKeyID,
                             SecretAccessKey |-> mcConfigV3.Hosts[host].SecretAccessKey,
                             Signature       |-> "v4"]]]
         IN  IF mcConfigV3.Version = "3" THEN {Saved(confV4, configV4)} ELSE {NoSave}

\* V4ToV5 without "confV5.Version = 5": the tag of new(configV5) stays empty
V4ToV5_noVersion ==
    IF ~isMcConfigExists THEN {NoSave}
    ELSE LET mcConfigV4 == quickLoad(configV4, newConfigV4)
             confV5 == [Version |-> "",
                        Aliases |-> mcConfigV4.Aliases,
                        Hosts   |-> [host \in DOMAIN mcConfigV4.Hosts |->
                            [AccessKeyID     |-> mcConfigV4.Hosts[host].AccessKeyID,
                             SecretAccessKey |-> mcConfigV4.Hosts[host].SecretAccessKey,
                             API             |-> "S3v4"]]]
         IN  IF mcConfigV4.Version = "4" THEN {Saved(confV5, configV5)} ELSE {NoSave}

V4ToV5 ==
    IF ~isMcConfigExists THEN {NoSave}
    ELSE LET mcConfigV4 == quickLoad(configV4, newConfigV4)
             confV5 == [Version |-> "5",
                        Aliases |-> mcConfigV4.Aliases,
                        Hosts   |-> [host \in DOMAIN mcConfigV4.Hosts |->
                            [AccessKeyID     |-> mcConfigV4.Hosts[host].AccessKeyID,
                             SecretAccessKey |-> mcConfigV4.Hosts[host].SecretAccessKey,
                             API             |-> "S3v4"]]]
         IN  IF mcConfigV4.Version = "4" THEN {Saved(confV5, configV5)} ELSE {NoSave}

\* lines 403: the aliases of the version-6 document
aliasesV6(aliases) == Put(aliases, "gcs", "https://storage.googleapis.com")

\* compactS3 without the break: the loop visits every host whose key contains "s3"
compactS3_noBreak(hosts) ==
    LET s3hosts == {host \in DOMAIN hosts : Contains(host, "s3")}
        drop(hostConf) ==
            \/ hostConf.AccessKeyID = globalAccessKeyID
            \/ hostConf.SecretAccessKey = globalSecretAccessKey
            \/ hostConf.AccessKeyID = ""
            \/ hostConf.SecretAccessKey = ""
        left == [host \in {h \in DOMAIN hosts : ~(h \in s3hosts /\ drop(hosts[h]))} |->
                    hosts[host]]
    IN  IF s3hosts = {}
        THEN {[hosts |-> hosts,
               s3Conf |-> [AccessKeyID |-> "", SecretAccessKey |-> "", API |-> ""]]}
        ELSE {[hosts |-> left, s3Conf |-> hosts[host]] : host \in s3hosts}

\* compactS3 with range visiting the hosts in one fixed order
compactS3_fixedOrder(hosts) ==
    LET s3hosts == {host \in DOMAIN hosts : Contains(host, "s3")}
        drop(hostConf) ==
            \/ hostConf.AccessKeyID = globalAccessKeyID
            \/ hostConf.SecretAccessKey = globalSecretAccessKey
            \/ hostConf.AccessKeyID = ""
            \/ hostConf.SecretAccessKey = ""
    IN  IF s3hosts = {}
        THEN {[hosts |-> hosts,
               s3Conf |-> [AccessKeyID |-> "", SecretAccessKey |-> "", API |-> ""]]}
        ELSE LET host == CHOOSE h \in s3hosts : TRUE
             IN  {[hosts |-> IF drop(hosts[host]) THEN Delete(hosts, host) ELSE hosts,
                   s3Conf |-> hosts[host]]}

\* lines 412-429: the loop stops at the first host whose key contains "s3";
\* range may visit any of them first.  The hosts left and s3Conf, per choice.
compactS3(hosts) ==
    LET s3hosts == {host \in DOMAIN hosts : Contains(host, "s3")}
        drop(hostConf) ==
            \/ hostConf.AccessKeyID = globalAccessKeyID
            \/ hostConf.SecretAccessKey = globalSecretAccessKey
            \/ hostConf.AccessKeyID = ""
            \/ hostConf.SecretAccessKey = ""
    IN  IF s3hosts = {}
        THEN {[hosts |-> hosts,
               s3Conf |-> [AccessKeyID |-> "", SecretAccessKey |-> "", API |-> ""]]}
        ELSE {[hosts |-> IF drop(hosts[host]) THEN Delete(hosts, host) ELSE hosts,
               s3Conf |-> hosts[host]] : host \in s3hosts}

V5ToV6 ==
    IF ~isMcConfigExists THEN {NoSave}
    ELSE LET mcConfigV5 == quickLoad(configV5, newConfigV5)
             copied == [host \in DOMAIN mcConfigV5.Hosts |->
                            [AccessKeyID     |-> mcConfigV5.Hosts[host].AccessKeyID,
                             SecretAccessKey |-> mcConfigV5.Hosts[host].SecretAccessKey,
                             API             |-> mcConfigV5.Hosts[host].API]]
             gcsConf == [AccessKeyID     |-> globalAccessKeyID,
                         SecretAccessKey |-> globalSecretAccessKey,
                         API             |-> "S3v2"]
         IN  IF mcConfigV5.Version = "5"
             THEN {Saved([Version |-> globalMCConfigVersion,
                          Aliases |-> aliasesV6(mcConfigV5.Aliases),
                          Hosts   |-> Put(Put(c.hosts, "*s3*amazonaws.com", c.s3Conf),
                                          "*storage.googleapis.com", gcsConf)],
                         configV6) : c \in compactS3(copied)}
             ELSE {NoSave}

\* A loop "for host, hostCfg := range hosts" that stores hostCfg under the keys
\* target(host) (no key: the host is stored nowhere): the maps it can build.
\* Of the entries stored under one key, the one stored last stays, and range
\* may visit the hosts in any order.
RECURSIVE storedLast(_, _, _)
storedLast(hosts, keys, sources) ==
    IF keys = {} THEN {EmptyMap}
    ELSE LET k == CHOOSE x \in keys : TRUE
         IN  {Put(m, k, hosts[host]) :
                m \in storedLast(hosts, keys \ {k}, sources), host \in sources[k]}

rewriteHosts(hosts, target) ==
    LET keys == UNION {target[host] : host \in DOMAIN hosts}
        sources == [k \in keys |-> {host \in DOMAIN hosts : k \in target[host]}]
    IN  storedLast(hosts, keys, sources)

\* lines 125-161: the key fixConfigV6 stores a host under
targetV6(host) ==
    IF HasPrefix(host, "https") \/ HasPrefix(host, "http") THEN {host}
    ELSE IF Contains(host, "*s3*") \/ Contains(host, "*.s3*") THEN {"s3.amazonaws.com"}
    ELSE IF Contains(host, "s3*") THEN {"s3.amazonaws.com"}
    ELSE IF Contains(host, "*amazonaws.com") \/ Contains(host, "*.amazonaws.com")
         THEN {"s3.amazonaws.com"}
    ELSE IF Contains(host, "*storage.googleapis.com") THEN {"storage.googleapis.com"}
    ELSE IF Contains(host, "localhost:*") THEN {"localhost:9000"}
    ELSE IF Contains(host, "127.0.0.1:*") THEN {"127.0.0.1:9000"}
    ELSE {host}

fixV6 ==
    IF ~isMcConfigExists THEN {NoSave}
    ELSE LET conf == quickLoad(configV6, newConfigV6)
         IN  IF conf.Version = "6"
             THEN {Saved([Version |-> "6", Aliases |-> conf.Aliases, Hosts |-> hosts],
                         configV6) : hosts \in rewriteHosts(conf.Hosts, [host \in DOMAIN conf.Hosts |-> targetV6(host)])}
             ELSE {NoSave}

\* targetV6ForHosts without the test "Already fixed - move on" of lines 70-73
targetV6ForHosts_noFixedTest(host) ==
    LET url(scheme) == String([newURL EXCEPT !.Host = host, !.Scheme = scheme,
                                             !.SchemeSeparator = "://"])
    IN  IF host = "s3.amazonaws.com" \/ host = "storage.googleapis.com"
        THEN {url("https")}
        ELSE IF host = "localhost:9000" \/ host = "127.0.0.1:9000" THEN {url("http")}
        ELSE IF host = "play.minio.io:9000" \/ host = "dl.minio.io:9000"
             THEN {url("https")}
        ELSE {}

\* lines 69-99: the key fixConfigV6ForHosts stores a host under, if any
targetV6ForHosts(host) ==
    LET url(scheme) == String([newURL EXCEPT !.Host = host, !.Scheme = scheme,
                                             !.SchemeSeparator = "://"])
    IN  IF HasPrefix(host, "https") \/ HasPrefix(host, "http") THEN {host}
        ELSE IF host = "s3.amazonaws.com" \/ host = "storage.googleapis.com"
             THEN {url("https")}
        ELSE IF host = "localhost:9000" \/ host = "127.0.0.1:9000" THEN {url("http")}
        ELSE IF host = "play.minio.io:9000" \/ host = "dl.minio.io:9000"
             THEN {url("https")}
        ELSE {}

fixV6ForHosts ==
    IF ~isMcConfigExists THEN {NoSave}
    ELSE LET conf == quickLoad(configV6, newConfigV6)
         IN  IF conf.Version = "6"
             THEN {Saved([Version |-> "6", Aliases |-> conf.Aliases, Hosts |-> hosts],
                         configV6) : hosts \in rewriteHosts(conf.Hosts, [host \in DOMAIN conf.Hosts |-> targetV6ForHosts(host)])}
             ELSE {NoSave}

fixV3 ==
    IF ~isMcConfigExists THEN {NoSave}
    ELSE LET mcConfigV3 == quickLoad(brokenConfigV3, newBrokenConfigV3)
             confV3 == [Version |-> "3",
                        Aliases |-> mcConfigV3.Aliases,
                        Hosts   |-> [host \in DOMAIN mcConfigV3.Hosts |->
                            [AccessKeyID     |-> mcConfigV3.Hosts[host].AccessKeyID,
                             SecretAccessKey |-> mcConfigV3.Hosts[host].SecretAccessKey]]]
         IN  IF \/ DOMAIN mcConfigV3.Aliases # {}
                \/ mcConfigV3.ACL # ""
                \/ (mcConfigV3.Access # "" /\ mcConfigV3.Version = "3")
             THEN {Saved(confV3, configV3)}
             ELSE {NoSave}

(***************************************************************************)
(* The documents a behaviour starts from: a document of any version of the *)
(* chain, as the release of that version wrote it, with up to MaxHosts     *)
(* host entries and any of the aliases.                                    *)
(***************************************************************************)
Versions == <<"1.0.0", "1.0.1", "2", "3", "4", "5", "6">>

HostKeys ==
    {"s3.amazonaws.com", "*s3*amazonaws.com", "https://s3.amazonaws.com",
     "play.minio.io:9000", "example.com:9000"}

Credentials ==
    {[AccessKeyID |-> globalAccessKeyID, SecretAccessKey |-> globalSecretAccessKey],
     [AccessKeyID |-> "", SecretAccessKey |-> ""],
     [AccessKeyID |-> "AKIAUSER", SecretAccessKey |-> "usersecret"]}

AliasURLs == [gcs |-> "https://gcs.example.com", play |-> "https://play.minio.io:9000"]

InitAliases == {[n \in names |-> AliasURLs[n]] : names \in SUBSET DOMAIN AliasURLs}

InitHosts ==
    UNION {[keys -> Credentials] :
            keys \in {ks \in SUBSET HostKeys : Cardinality(ks) <= MaxHosts}}

\* the type a release of the given version saves its document as
typeOf(version) ==
    CASE version \in {"1.0.0", "1.0.1", "2"} -> configV2
      [] version = "3" -> configV3
      [] version = "4" -> configV4
      [] OTHER -> configV5

\* the host entry of that type holding the credentials c
hostOf(version, c) ==
    CASE version \in {"1.0.0", "1.0.1", "2", "3"} -> c
      [] version = "4" ->
            [AccessKeyID |-> c.AccessKeyID, SecretAccessKey |-> c.SecretAccessKey,
             Signature |-> "v4"]
      [] OTHER ->
            [AccessKeyID |-> c.AccessKeyID, SecretAccessKey |-> c.SecretAccessKey,
             API |-> "S3v4"]

InitConfigs ==
    {quickSave([Version |-> Versions[i],
                Aliases |-> aliases,
                Hosts   |-> [h \in DOMAIN hosts |-> hostOf(Versions[i], hosts[h])]],
               typeOf(Versions[i])) :
        i \in DOMAIN Versions, aliases \in InitAliases, hosts \in InitHosts}

NoConfig == [exists |-> FALSE, obj |-> EmptyMap]

Idle == [fn |-> "none", pc |-> 0, before |-> NoConfig, saves |-> 0]

NoStep == [op |-> "none", before |-> NoConfig, saved |-> FALSE]

\* a *URL that is nil
NoURL ==
    [Type |-> "nil", Scheme |-> "", Host |-> "", Path |-> "",
     SchemeSeparator |-> "", Separator |-> ""]

\* no location string is being parsed, no JoinURLs is running, mc cp is not running
NoParse == [pc |-> "none", urlStr |-> "", url |-> NoURL, str |-> "", url2 |-> NoURL]

NoJoin ==
    [pc |-> "none", url1Str |-> "", url2Str |-> "", url1 |-> NoURL, url2 |-> NoURL,
     parent |-> NoURL]

NoArgs == [srcURLs |-> <<>>, tgtURL |-> "", isRecursive |-> FALSE]

NoStat == <<>>

NoCopy ==
    [pc |-> "none", copyURLsType |-> "", branch |-> "none", exit |-> "none", stats |-> {}]

\* mc mb is not running
NoMb == [pc |-> "none", URLs |-> <<>>, i |-> 0, attempts |-> <<>>, msgs |-> <<>>]

\* a *s3Client that is nil
NoClient == [hostURL |-> NoURL, virtualStyle |-> FALSE]

\* a nil *client.Content
NilContent == [Err |-> FALSE, URL |-> NoURL, Type |-> ""]

\* no listed entry is being resolved again
NoTrip ==
    [pc |-> "none", bucket |-> "", key |-> "", recursive |-> FALSE, lister |-> "",
     content |-> NilContent, name |-> <<"", "">>]

\* mc config add alias is not running
NoAdd ==
    [pc |-> "none", alias |-> "", url |-> "", exit |-> "none", before |-> NoConfig,
     runs |-> 0]

\* no backend, no call of Stat or List, no channel
NoApi == [buckets |-> <<>>, objects |-> <<>>, statObject |-> "", bucketExists |-> FALSE]

NoCall ==
    [op |-> "none", recursive |-> FALSE, incomplete |-> FALSE, pc |-> "none",
     unlocks |-> 0, prefixName |-> "", ret |-> [content |-> NilContent, err |-> ""]]

NoCalls == <<NoCall, NoCall>>

NoChan ==
    [made |-> FALSE, routine |-> "", pc |-> "none", contents |-> <<>>, sent |-> 0,
     closes |-> 0]

NoChans == <<NoChan, NoChan>>

NoResolve ==
    [pc |-> "none", label |-> "", key |-> "", provider |-> "",
     virtual |-> NoClient, pathStyle |-> NoClient,
     virtualName |-> <<"", "">>, pathStyleName |-> <<"", "">>]

Init ==
    /\ config \in InitConfigs \cup {NoConfig}
    /\ cur = Idle
    /\ log = <<>>
    /\ step = NoStep
    /\ goos = "linux"
    /\ parse = NoParse
    /\ join = NoJoin
    /\ args = NoArgs
    /\ stat = NoStat
    /\ cp = NoCopy
    /\ resolve = NoResolve
    /\ s3Clnt = NoClient
    /\ api = NoApi
    /\ mu = 0
    /\ calls = NoCalls
    /\ chans = NoChans
    /\ mb = NoMb
    /\ trip = NoTrip
    /\ add = NoAdd

(***************************************************************************)
(* The actions: a call of migrateConfig or fixConfig, and each function    *)
(* these call, in the order of lines 27-49.                                *)
(***************************************************************************)
Call(fn) ==
    /\ cur.fn = "none"
    /\ Len(log) < MaxCalls
    /\ cur' = [fn |-> fn, pc |-> 1, before |-> config, saves |-> 0]
    /\ UNCHANGED <<config, log, step, goos, parse, join, args, stat, cp, resolve, s3Clnt, api, mu, calls, chans, mb, trip, add>>

\* the function op, the pc-th of fn, runs with one of its outcomes; the last
\* function of fn returns from fn
Run(fn, pc, op, outcomes, last) ==
    /\ cur.fn = fn
    /\ cur.pc = pc
    /\ \E r \in outcomes :
        LET saves == cur.saves + (IF r.saved THEN 1 ELSE 0)
        IN  /\ config' = r.config
            /\ step' = [op |-> op, before |-> config, saved |-> r.saved]
            /\ IF last
               THEN /\ cur' = Idle
                    /\ log' = Append(log, [fn |-> fn, before |-> cur.before,
                                           after |-> r.config, saves |-> saves])
               ELSE /\ cur' = [cur EXCEPT !.pc = pc + 1, !.saves = saves]
                    /\ log' = log
    /\ UNCHANGED <<goos, parse, join, args, stat, cp, resolve, s3Clnt, api, mu, calls, chans, mb, trip, add>>

migrateConfig == Call("migrateConfig")

migrateConfigV1ToV101 == Run("migrateConfig", 1, "migrateConfigV1ToV101", V1ToV101, FALSE)

migrateConfigV101ToV2 == Run("migrateConfig", 2, "migrateConfigV101ToV2", V101ToV2, FALSE)

migrateConfigV2ToV3 == Run("migrateConfig", 3, "migrateConfigV2ToV3", V2ToV3, FALSE)

migrateConfigV3ToV4 == Run("migrateConfig", 4, "migrateConfigV3ToV4", V3ToV4, FALSE)

migrateConfigV4ToV5 == Run("migrateConfig", 5, "migrateConfigV4ToV5", V4ToV5, FALSE)

migrateConfigV5ToV6 == Run("migrateConfig", 6, "migrateConfigV5ToV6", V5ToV6, TRUE)

fixConfig == Call("fixConfig")

fixConfigV3 == Run("fixConfig", 1, "fixConfigV3", fixV3, FALSE)

fixConfigV6 == Run("fixConfig", 2, "fixConfigV6", fixV6, FALSE)

fixConfigV6ForHosts == Run("fixConfig", 3, "fixConfigV6ForHosts", fixV6ForHosts, TRUE)

Next ==
    \/ migrateConfig
    \/ migrateConfigV1ToV101
    \/ migrateConfigV101ToV2
    \/ migrateConfigV2ToV3
    \/ migrateConfigV3ToV4
    \/ migrateConfigV4ToV5
    \/ migrateConfigV5ToV6
    \/ fixConfig
    \/ fixConfigV3
    \/ fixConfigV6
    \/ fixConfigV6ForHosts

Spec == Init /\ [][Next]_vars

(***************************************************************************)
(* The documents as the claims speak of them.                              *)
(***************************************************************************)
\* the version tag, as every loader reads it
versionOf(doc) == FieldOf(doc.obj, "version", "")

\* the alias bindings, under the key of the document's own schema
aliasesOf(doc) ==
    IF "alias" \in DOMAIN doc.obj THEN doc.obj["alias"]
    ELSE IF "Aliases" \in DOMAIN doc.obj THEN doc.obj["Aliases"]
    ELSE EmptyMap

\* the host entries
hostsOf(doc) == FieldOf(doc.obj, "hosts", EmptyMap)

\* the access key and the secret key of a host entry of a version-5 or -6 document
accessKeyOf(entry) == entry["accessKeyId"]

secretKeyOf(entry) == entry["secretAccessKey"]

\* the completed calls of a function
CallsOf(fn) == {i \in DOMAIN log : log[i].fn = fn}

\* the source version of each step of the chain
SourceVersion ==
    [migrateConfigV1ToV101 |-> "1.0.0", migrateConfigV101ToV2 |-> "1.0.1",
     migrateConfigV2ToV3 |-> "2", migrateConfigV3ToV4 |-> "3",
     migrateConfigV4ToV5 |-> "4", migrateConfigV5ToV6 |-> "5"]

(***************************************************************************)
(* C1.  Migration idempotence: when migrateConfig has run twice in         *)
(* succession on an existing document of a version of the chain, the       *)
(* second run saved nothing and left the document the first run produced.  *)
(***************************************************************************)
C1_MigrateIdempotent ==
    \A i \in CallsOf("migrateConfig") :
        (i + 1 \in CallsOf("migrateConfig") /\ log[i].before.exists)
            => /\ log[i + 1].saves = 0
               /\ log[i + 1].after = log[i].after

\* two runs in succession, the first of which migrated a 1.0.0 document
C1_Witness ==
    \E i \in CallsOf("migrateConfig") :
        /\ i + 1 \in CallsOf("migrateConfig")
        /\ versionOf(log[i].before) = "1.0.0"
        /\ log[i].saves > 0

(***************************************************************************)
(* C2.  Convergence: when migrateConfig returns from an existing document  *)
(* of a version of the chain, the version tag of the document is 6.        *)
(***************************************************************************)
C2_MigrateConverges ==
    \A i \in CallsOf("migrateConfig") :
        log[i].before.exists => versionOf(log[i].after) = "6"

\* a run that took a 1.0.0 document with host entries to version 6
C2_Witness ==
    \E i \in CallsOf("migrateConfig") :
        /\ versionOf(log[i].before) = "1.0.0"
        /\ versionOf(log[i].after) = "6"
        /\ DOMAIN hostsOf(log[i].before) # {}

(***************************************************************************)
(* C3.  A migration step whose source version is not the version tag of    *)
(* the document saves nothing and leaves the document as it was.           *)
(***************************************************************************)
C3_StepNoOpOnMismatch ==
    (step.op \in DOMAIN SourceVersion /\ step.before.exists
        /\ versionOf(step.before) # SourceVersion[step.op])
        => (~step.saved /\ config = step.before)

\* the 2 -> 3 step has run on a version-6 document that holds aliases and hosts
C3_Witness ==
    /\ step.op = "migrateConfigV2ToV3"
    /\ versionOf(step.before) = "6"
    /\ DOMAIN aliasesOf(step.before) # {}
    /\ DOMAIN hostsOf(step.before) # {}
    /\ ~step.saved

(***************************************************************************)
(* C4.  No alias is lost or changed by migration: every alias binding of   *)
(* the document before migrateConfig is in the document after it, bound to *)
(* the same URL.                                                           *)
(***************************************************************************)
C4_AliasesKept ==
    \A i \in CallsOf("migrateConfig") :
        log[i].before.exists =>
            \A name \in DOMAIN aliasesOf(log[i].before) :
                /\ name \in DOMAIN aliasesOf(log[i].after)
                /\ aliasesOf(log[i].after)[name] = aliasesOf(log[i].before)[name]

(***************************************************************************)
(* C5.  The 5 -> 6 step and the host entries with default credentials.     *)
(***************************************************************************)
SynthesizedHosts == {"*s3*amazonaws.com", "*storage.googleapis.com"}

V5ToV6Ran == step.op = "migrateConfigV5ToV6" /\ step.saved

hasDefaultCredentials(entry) ==
    accessKeyOf(entry) = globalAccessKeyID /\ secretKeyOf(entry) = globalSecretAccessKey

\* the host keys of the version-5 document that the version-6 document lacks
deletedByV5ToV6 == DOMAIN hostsOf(step.before) \ DOMAIN hostsOf(config)

\* C5 as stated: after the 5 -> 6 step no host entry of the version-5 document
\* that holds the default credentials is left, whatever its key
C5_AllDefaultHostsDeleted ==
    V5ToV6Ran =>
        \A host \in DOMAIN hostsOf(step.before) \ SynthesizedHosts :
            hasDefaultCredentials(hostsOf(step.before)[host])
                => host \notin DOMAIN hostsOf(config)

\* C5 as amended: the 5 -> 6 step deletes at most one host entry, one whose key
\* contains "s3" and whose access key or secret key is the default one or is
\* empty; every other entry is carried over unchanged, whatever its credentials,
\* but for the two keys the step synthesizes
C5_AtMostOneS3HostDeleted ==
    V5ToV6Ran =>
        /\ Cardinality(deletedByV5ToV6) <= 1
        /\ \A host \in deletedByV5ToV6 :
            LET entry == hostsOf(step.before)[host]
            IN  /\ Contains(host, "s3")
                /\ \/ accessKeyOf(entry) = globalAccessKeyID
                   \/ secretKeyOf(entry) = globalSecretAccessKey
                   \/ accessKeyOf(entry) = ""
                   \/ secretKeyOf(entry) = ""
        /\ \A host \in (DOMAIN hostsOf(step.before) \ deletedByV5ToV6) \ SynthesizedHosts :
            hostsOf(config)[host] = hostsOf(step.before)[host]

\* the step deleted one entry and left another that holds the default credentials
C5_Witness ==
    /\ V5ToV6Ran
    /\ Cardinality(deletedByV5ToV6) = 1
    /\ \E host \in DOMAIN hostsOf(step.before) \ SynthesizedHosts :
        /\ hasDefaultCredentials(hostsOf(step.before)[host])
        /\ host \in DOMAIN hostsOf(config)

(***************************************************************************)
(* C6.  The fix-up passes lose no host credentials: every host entry of a  *)
(* version-6 document before fixConfig is in the document after it, under  *)
(* the same key or under the key it was rewritten to.                      *)
(***************************************************************************)
\* the keys an entry under the key host may be found under after fixConfig
keysAfterFix(host) ==
    {host} \cup targetV6(host)
           \cup UNION {targetV6ForHosts(k) : k \in targetV6(host) \cup {host}}

C6_FixKeepsHosts ==
    \A i \in CallsOf("fixConfig") :
        (log[i].before.exists /\ versionOf(log[i].before) = "6") =>
            \A host \in DOMAIN hostsOf(log[i].before) :
                \E k \in keysAfterFix(host) \cap DOMAIN hostsOf(log[i].after) :
                    hostsOf(log[i].after)[k] = hostsOf(log[i].before)[host]

(***************************************************************************)
(* Location strings through the URL model: NewURL, URL.String and NewURL   *)
(* again on the canonical string.                                          *)
(***************************************************************************)
\* the strings made of at most n of the given pieces
RECURSIVE StringsUpTo(_, _)
StringsUpTo(chunks, n) ==
    IF n = 0 THEN {""}
    ELSE LET shorter == StringsUpTo(chunks, n - 1)
         IN  shorter \cup {s \o c : s \in shorter, c \in chunks}

\* pieces of a location string: schemes (http, s, https), the scheme
\* separator, path separators of both platforms, user-info and query marks
Chunks == {"http", "s", "://", "/", "\\", "@", "?"}

LocationStrings == StringsUpTo(Chunks, MaxChunks)

InitURL ==
    /\ goos \in {"linux", "windows"}
    /\ parse \in {[NoParse EXCEPT !.pc = "NewURL", !.urlStr = s] : s \in LocationStrings}
    /\ config = NoConfig
    /\ cur = Idle
    /\ log = <<>>
    /\ step = NoStep
    /\ join = NoJoin
    /\ args = NoArgs
    /\ stat = NoStat
    /\ cp = NoCopy
    /\ resolve = NoResolve
    /\ s3Clnt = NoClient
    /\ api = NoApi
    /\ mu = 0
    /\ calls = NoCalls
    /\ chans = NoChans
    /\ mb = NoMb
    /\ trip = NoTrip
    /\ add = NoAdd

\* url := NewURL(urlStr)
urlNewURL ==
    /\ parse.pc = "NewURL"
    /\ parse' = [parse EXCEPT !.pc = "String", !.url = NewURL(parse.urlStr)]
    /\ UNCHANGED <<config, cur, log, step, goos, join, args, stat, cp, resolve, s3Clnt, api, mu, calls, chans, mb, trip, add>>

\* str := url.String()
urlString ==
    /\ parse.pc = "String"
    /\ parse' = [parse EXCEPT !.pc = "NewURL2", !.str = String(parse.url)]
    /\ UNCHANGED <<config, cur, log, step, goos, join, args, stat, cp, resolve, s3Clnt, api, mu, calls, chans, mb, trip, add>>

\* url2 := NewURL(str)
urlNewURL2 ==
    /\ parse.pc = "NewURL2"
    /\ parse' = [parse EXCEPT !.pc = "done", !.url2 = NewURL(parse.str)]
    /\ UNCHANGED <<config, cur, log, step, goos, join, args, stat, cp, resolve, s3Clnt, api, mu, calls, chans, mb, trip, add>>

NextURL == urlNewURL \/ urlString \/ urlNewURL2

SpecURL == InitURL /\ [][NextURL]_vars

(***************************************************************************)
(* JoinURLs on a parent and a child location, both made by NewURL.         *)
(***************************************************************************)
PathChunks == {"/", "\\", "s"}

\* parents of both kinds: a filesystem path, or an object URL with that path
ParentStrings == {p \o s : p \in {"", "http://s"}, s \in StringsUpTo(PathChunks, MaxPath)}

ChildStrings == StringsUpTo(PathChunks, MaxPath)

InitJoin ==
    /\ goos \in {"linux", "windows"}
    /\ join \in {[NoJoin EXCEPT !.pc = "url1", !.url1Str = p, !.url2Str = c] :
                    p \in ParentStrings, c \in ChildStrings}
    /\ config = NoConfig
    /\ cur = Idle
    /\ log = <<>>
    /\ step = NoStep
    /\ parse = NoParse
    /\ args = NoArgs
    /\ stat = NoStat
    /\ cp = NoCopy
    /\ resolve = NoResolve
    /\ s3Clnt = NoClient
    /\ api = NoApi
    /\ mu = 0
    /\ calls = NoCalls
    /\ chans = NoChans
    /\ mb = NoMb
    /\ trip = NoTrip
    /\ add = NoAdd

\* url1 := NewURL(url1Str)
joinNewURL1 ==
    /\ join.pc = "url1"
    /\ join' = [join EXCEPT !.pc = "url2", !.url1 = NewURL(join.url1Str)]
    /\ UNCHANGED <<config, cur, log, step, goos, parse, args, stat, cp, resolve, s3Clnt, api, mu, calls, chans, mb, trip, add>>

\* url2 := NewURL(url2Str)
joinNewURL2 ==
    /\ join.pc = "url2"
    /\ join' = [join EXCEPT !.pc = "JoinURLs", !.url2 = NewURL(join.url2Str)]
    /\ UNCHANGED <<config, cur, log, step, goos, parse, args, stat, cp, resolve, s3Clnt, api, mu, calls, chans, mb, trip, add>>

\* JoinURLs(url1, url2): url1 is changed in place; parent keeps what it was
joinJoinURLs ==
    /\ join.pc = "JoinURLs"
    /\ join' = [join EXCEPT !.pc = "done", !.parent = join.url1,
                            !.url1 = JoinURLs(join.url1, join.url2)]
    /\ UNCHANGED <<config, cur, log, step, goos, parse, args, stat, cp, resolve, s3Clnt, api, mu, calls, chans, mb, trip, add>>

NextJoin == joinNewURL1 \/ joinNewURL2 \/ joinJoinURLs

SpecJoin == InitJoin /\ [][NextJoin]_vars

(***************************************************************************)
(* Claims about the URL model.                                             *)
(***************************************************************************)
\* C8: URL round trip.  For every location string s, NewURL(NewURL(s).String())
\* equals NewURL(s) field by field (Type, Scheme, Host, Path, separators),
\* strings that begin with '//' and paths that begin with '//' included.
C8_RoundTrip ==
    parse.pc = "done" => parse.url2 = parse.url

\* a path on which both platforms' separators are written '/' on windows,
\* as JoinURLs compares them
slashed(path) == IF goos = "windows" THEN ReplaceAll(path, "\\", "/") ELSE path

RECURSIVE TrimRightSeparators(_)
TrimRightSeparators(path) ==
    IF HasSuffix(path, "/") THEN TrimRightSeparators(SubSeq(path, 1, Len(path) - 1))
    ELSE path

RECURSIVE TrimLeftSeparators(_)
TrimLeftSeparators(path) ==
    IF HasPrefix(path, "/") THEN TrimLeftSeparators(SubSeq(path, 2, Len(path)))
    ELSE path

\* C9: JoinURLs puts exactly one separator at the boundary.  The joined path
\* is the parent's path without its trailing separators, one separator, and
\* the child's path without its leading separators: never two adjacent
\* separators at the join point, never none, for parents of both kinds.
C9_ExactlyOneSeparator ==
    join.pc = "done" =>
        slashed(join.url1.Path) = TrimRightSeparators(slashed(join.parent.Path)) \o "/"
                                  \o TrimLeftSeparators(slashed(join.url2.Path))

\* the part of s before the first '/' or '?'
RECURSIVE authorityOf(_)
authorityOf(s) ==
    IF s = "" \/ Char(s, 1) = "/" \/ Char(s, 1) = "?" THEN ""
    ELSE SubSeq(s, 1, 1) \o authorityOf(SubSeq(s, 2, Len(s)))

\* s is scheme://host... with scheme http or https and a non-empty host
\* without user-info
hasObjectForm(s) ==
    \E scheme \in {"http", "https"} :
        /\ HasPrefix(s, scheme \o "://")
        /\ LET authority == authorityOf(SubSeq(s, Len(scheme) + 4, Len(s)))
           IN  authority # "" /\ ~Contains(authority, "@")

\* C10: location kind invariant.  NewURL returns Type Object if and only if
\* the input has the form scheme://host... with scheme exactly http or https
\* and a non-empty host without '@'; for every other input it returns Type
\* Filesystem with empty Host and empty Scheme.
C10_KindInvariant ==
    parse.pc \in {"String", "NewURL2", "done"} =>
        /\ parse.url.Type = Object <=> hasObjectForm(parse.urlStr)
        /\ parse.url.Type # Object =>
              parse.url.Type = Filesystem /\ parse.url.Host = "" /\ parse.url.Scheme = ""

\* the second half of C10 alone: what is not an Object is a Filesystem location
\* without Host and Scheme, and an Object has scheme http or https and a host
C10_KindsWellFormed ==
    parse.pc \in {"String", "NewURL2", "done"} =>
        /\ parse.url.Type \in {Object, Filesystem}
        /\ parse.url.Type = Filesystem => parse.url.Host = "" /\ parse.url.Scheme = ""
        /\ parse.url.Type = Object =>
              parse.url.Scheme \in {"http", "https"} /\ parse.url.Host # ""
                 /\ ~Contains(parse.url.Host, "@") /\ hasObjectForm(parse.urlStr)

(***************************************************************************)
(* mc cp: the copy-syntax classifier (cp-url-syntax.go) over a storage     *)
(* that answers url2Stat.                                                  *)
(***************************************************************************)
copyURLsTypeA == "A"
copyURLsTypeB == "B"
copyURLsTypeC == "C"
copyURLsTypeD == "D"
copyURLsTypeInvalid == "Invalid"

copyURLsTypes ==
    {copyURLsTypeA, copyURLsTypeB, copyURLsTypeC, copyURLsTypeD, copyURLsTypeInvalid}

\* what the storage holds at a URL: nothing, nothing but keys under its
\* prefix, a directory (or bucket), a regular file (or object)
StatResults == {"notFound", "prefix", "dir", "regular"}

\* url2Stat(url): err != nil
statErr(url) == stat[url] \in {"notFound", "prefix"}

\* content.Type.IsDir(), content.Type.IsRegular() of a stat without error
IsDir(url) == stat[url] = "dir"

IsRegular(url) == stat[url] = "regular"

isURLPrefixExists(url) == stat[url] = "prefix"

\* lines 35-44 for every target: the stat of an existing target is not looked at
isTargetURLDir_trailingOnly(targetURL) ==
    LET targetURLParse == NewURL(targetURL)
    IN  IF targetURLParse.Path = targetURLParse.Separator /\ targetURLParse.Scheme # ""
        THEN FALSE
        ELSE HasSuffix(targetURLParse.Path, targetURLParse.Separator)

\* lines 45-48 without the test of the type: a target that exists is a directory
isTargetURLDir_existing(targetURL) ==
    LET targetURLParse == NewURL(targetURL)
    IN  IF statErr(targetURL)
        THEN IF targetURLParse.Path = targetURLParse.Separator
                /\ targetURLParse.Scheme # ""
             THEN FALSE
             ELSE HasSuffix(targetURLParse.Path, targetURLParse.Separator)
        ELSE TRUE

\* common-methods.go, lines 32-48
isTargetURLDir(targetURL) ==
    LET targetURLParse == NewURL(targetURL)
    IN  IF statErr(targetURL)
        THEN IF targetURLParse.Path = targetURLParse.Separator
                /\ targetURLParse.Scheme # ""
             THEN FALSE
             ELSE HasSuffix(targetURLParse.Path, targetURLParse.Separator)
        ELSE IsDir(targetURL)

\* the classification rule, in its order: one source that does not end in the
\* separator is A, or B when the target is a directory; one source that ends
\* in the separator is C with recursive and a directory target; several
\* sources are D with a directory target; everything else is Invalid
guessCopyURLType(sourceURLs, targetURL, isRecursive) ==
    IF Len(sourceURLs) = 1
    THEN IF ~HasSuffix(sourceURLs[1], NewURL(sourceURLs[1]).Separator)
         THEN IF isTargetURLDir(targetURL) THEN copyURLsTypeB ELSE copyURLsTypeA
         ELSE IF isRecursive /\ isTargetURLDir(targetURL) THEN copyURLsTypeC
              ELSE copyURLsTypeInvalid
    ELSE IF isTargetURLDir(targetURL) THEN copyURLsTypeD
         ELSE copyURLsTypeInvalid

\* lines 54-66 with the case for type D left out and no default to catch it
switchCase_noCaseD(copyURLsType) ==
    IF copyURLsType = copyURLsTypeA THEN "checkCopySyntaxTypeA"
    ELSE IF copyURLsType = copyURLsTypeB THEN "checkCopySyntaxTypeB"
    ELSE IF copyURLsType = copyURLsTypeC THEN "checkCopySyntaxTypeC"
    ELSE IF copyURLsType = copyURLsTypeInvalid THEN "default"
    ELSE "none"

\* lines 54-66: the branch the switch takes on a type
switchCase(copyURLsType) ==
    IF copyURLsType = copyURLsTypeA THEN "checkCopySyntaxTypeA"
    ELSE IF copyURLsType = copyURLsTypeB THEN "checkCopySyntaxTypeB"
    ELSE IF copyURLsType = copyURLsTypeC THEN "checkCopySyntaxTypeC"
    ELSE IF copyURLsType = copyURLsTypeD THEN "checkCopySyntaxTypeD"
    ELSE "default"

SwitchBranches ==
    {"checkCopySyntaxTypeA", "checkCopySyntaxTypeB", "checkCopySyntaxTypeC",
     "checkCopySyntaxTypeD", "default"}

\* the check of the target without the test of its type
checkTarget_anyType(tgtURL) == "ok"

\* the check of an existing target shared by types B, C and D: fatal when the
\* target exists and is not a directory
checkTarget(tgtURL) ==
    IF ~statErr(tgtURL) /\ ~IsDir(tgtURL) THEN "fatal" ELSE "ok"

\* lines 70-82 without the test of lines 79-81
checkCopySyntaxTypeA_anyType(srcURLs, tgtURL) ==
    IF Len(srcURLs) # 1 THEN "fatal"
    ELSE IF statErr(srcURLs[1]) THEN "fatal"
    ELSE "ok"

\* how each check ends: "ok" (returns), "fatal" (fatalIf exits), "panic"
\* (srcContent is read although the stat failed)
checkCopySyntaxTypeA(srcURLs, tgtURL) ==
    IF Len(srcURLs) # 1 THEN "fatal"
    ELSE IF statErr(srcURLs[1]) THEN "fatal"
    ELSE IF ~IsRegular(srcURLs[1]) THEN "fatal"
    ELSE "ok"

checkCopySyntaxTypeB(srcURLs, tgtURL) ==
    IF checkCopySyntaxTypeA(srcURLs, tgtURL) = "fatal" THEN "fatal"
    ELSE checkTarget(tgtURL)

checkCopySyntaxTypeC(srcURLs, tgtURL, isRecursive) ==
    IF Len(srcURLs) # 1 THEN "fatal"
    ELSE IF statErr(srcURLs[1]) /\ ~isURLPrefixExists(srcURLs[1]) THEN "fatal"
    ELSE IF statErr(srcURLs[1]) THEN "panic"
    ELSE IF IsDir(srcURLs[1]) /\ ~isRecursive THEN "fatal"
    ELSE checkTarget(tgtURL)

checkCopySyntaxTypeD(srcURLs, tgtURL) == checkTarget(tgtURL)

\* the calls of url2Stat each function makes before it returns or exits:
\* the source is looked at first, the target when the source has passed
statsOfGuess(srcURLs, tgtURL, isRecursive) ==
    IF Len(srcURLs) = 1 /\ HasSuffix(srcURLs[1], NewURL(srcURLs[1]).Separator)
       /\ ~isRecursive
    THEN {}
    ELSE {<<"isTargetURLDir", tgtURL>>}

statsOfTypeA(srcURLs, tgtURL) ==
    IF Len(srcURLs) # 1 THEN {} ELSE {<<"checkCopySyntaxTypeA", srcURLs[1]>>}

statsOfTypeB(srcURLs, tgtURL) ==
    IF Len(srcURLs) # 1 THEN {}
    ELSE {<<"checkCopySyntaxTypeB", srcURLs[1]>>}
         \cup (IF checkCopySyntaxTypeA(srcURLs, tgtURL) = "ok"
               THEN {<<"checkCopySyntaxTypeB", tgtURL>>} ELSE {})

statsOfTypeC(srcURLs, tgtURL, isRecursive) ==
    IF Len(srcURLs) # 1 THEN {}
    ELSE {<<"checkCopySyntaxTypeC", srcURLs[1]>>}
         \cup (IF ~statErr(srcURLs[1]) /\ ~(IsDir(srcURLs[1]) /\ ~isRecursive)
               THEN {<<"checkCopySyntaxTypeC", tgtURL>>} ELSE {})

statsOfTypeD(srcURLs, tgtURL) == {<<"checkCopySyntaxTypeD", tgtURL>>}

\* the arguments of mc cp: sources and targets on an object store and on the
\* filesystem, with and without a trailing separator; a target may be empty
\* (nothing is found at the empty URL) or a host without a bucket
SourceURLs == {"http://s/b/o", "http://s/b/", "/t/"}

TargetURLs == {"", "http://s/", "http://s/b", "http://s/b/o", "/t/"}

SourceLists == UNION {[1..n -> SourceURLs] : n \in 1..MaxSources}

URLsOf(a) == {a.srcURLs[i] : i \in 1..Len(a.srcURLs)} \cup {a.tgtURL}

InitCopy ==
    /\ goos = "linux"
    /\ args \in [srcURLs : SourceLists, tgtURL : TargetURLs, isRecursive : BOOLEAN]
    /\ stat \in {s \in [URLsOf(args) -> StatResults] :
                      "" \in DOMAIN s => s[""] = "notFound"}
    /\ cp = [NoCopy EXCEPT !.pc = "checkCopySyntax"]
    /\ config = NoConfig
    /\ cur = Idle
    /\ log = <<>>
    /\ step = NoStep
    /\ parse = NoParse
    /\ join = NoJoin
    /\ resolve = NoResolve
    /\ s3Clnt = NoClient
    /\ api = NoApi
    /\ mu = 0
    /\ calls = NoCalls
    /\ chans = NoChans
    /\ mb = NoMb
    /\ trip = NoTrip
    /\ add = NoAdd

\* lines 45-51 with the path compared to the empty string
targetWithoutBucket_emptyPath(tgtURL) ==
    LET url == NewURL(tgtURL)
    IN  url.Host # "" /\ url.Path = ""

\* lines 45-51: the target is of type URL and names no bucket
targetWithoutBucket(tgtURL) ==
    LET url == NewURL(tgtURL)
    IN  url.Host # "" /\ url.Path = url.Separator

\* lines 26-51: the arguments are taken apart and the target is checked for
\* a bucket name
checkCopySyntax ==
    /\ cp.pc = "checkCopySyntax"
    /\ IF targetWithoutBucket(args.tgtURL)
       THEN cp' = [cp EXCEPT !.pc = "exit", !.exit = "fatal"]
       ELSE cp' = [cp EXCEPT !.pc = "guessCopyURLType"]
    /\ UNCHANGED <<config, cur, log, step, goos, parse, join, args, stat, resolve, s3Clnt, api, mu, calls, chans, mb, trip, add>>

\* line 54
copyGuessCopyURLType ==
    /\ cp.pc = "guessCopyURLType"
    /\ cp' = [cp EXCEPT !.pc = "switch",
                        !.copyURLsType = guessCopyURLType(args.srcURLs, args.tgtURL,
                                                          args.isRecursive),
                        !.stats = statsOfGuess(args.srcURLs, args.tgtURL,
                                               args.isRecursive)]
    /\ UNCHANGED <<config, cur, log, step, goos, parse, join, args, stat, resolve, s3Clnt, api, mu, calls, chans, mb, trip, add>>

\* one case of the switch of lines 55-66, with the check it calls
Case(branch, outcome, stats) ==
    /\ cp.pc = "switch"
    /\ switchCase(cp.copyURLsType) = branch
    /\ cp' = [cp EXCEPT !.pc = IF outcome = "ok" THEN "return" ELSE "exit",
                        !.branch = branch, !.exit = outcome,
                        !.stats = cp.stats \cup stats]
    /\ UNCHANGED <<config, cur, log, step, goos, parse, join, args, stat, resolve, s3Clnt, api, mu, calls, chans, mb, trip, add>>

caseCopyURLsTypeA ==
    Case("checkCopySyntaxTypeA", checkCopySyntaxTypeA(args.srcURLs, args.tgtURL),
         statsOfTypeA(args.srcURLs, args.tgtURL))

caseCopyURLsTypeB ==
    Case("checkCopySyntaxTypeB", checkCopySyntaxTypeB(args.srcURLs, args.tgtURL),
         statsOfTypeB(args.srcURLs, args.tgtURL))

caseCopyURLsTypeC ==
    Case("checkCopySyntaxTypeC",
         checkCopySyntaxTypeC(args.srcURLs, args.tgtURL, args.isRecursive),
         statsOfTypeC(args.srcURLs, args.tgtURL, args.isRecursive))

caseCopyURLsTypeD ==
    Case("checkCopySyntaxTypeD", checkCopySyntaxTypeD(args.srcURLs, args.tgtURL),
         statsOfTypeD(args.srcURLs, args.tgtURL))

caseDefault == Case("default", "fatal", {})

NextCopy ==
    \/ checkCopySyntax
    \/ copyGuessCopyURLType
    \/ caseCopyURLsTypeA
    \/ caseCopyURLsTypeB
    \/ caseCopyURLsTypeC
    \/ caseCopyURLsTypeD
    \/ caseDefault

SpecCopy == InitCopy /\ [][NextCopy]_vars

\* the four checks called on arguments of any shape, over any storage
InitCheck ==
    /\ goos = "linux"
    /\ args \in [srcURLs : SourceLists, tgtURL : TargetURLs, isRecursive : BOOLEAN]
    /\ stat \in {s \in [URLsOf(args) -> StatResults] :
                      "" \in DOMAIN s => s[""] = "notFound"}
    /\ cp = [NoCopy EXCEPT !.pc = "check"]
    /\ config = NoConfig
    /\ cur = Idle
    /\ log = <<>>
    /\ step = NoStep
    /\ parse = NoParse
    /\ join = NoJoin
    /\ resolve = NoResolve
    /\ s3Clnt = NoClient
    /\ api = NoApi
    /\ mu = 0
    /\ calls = NoCalls
    /\ chans = NoChans
    /\ mb = NoMb
    /\ trip = NoTrip
    /\ add = NoAdd

\* one check runs to its return or to the exit of fatalIf
Check(fn, outcome, stats) ==
    /\ cp.pc = "check"
    /\ cp' = [cp EXCEPT !.pc = IF outcome = "ok" THEN "return" ELSE "exit",
                        !.branch = fn, !.exit = outcome, !.stats = stats]
    /\ UNCHANGED <<config, cur, log, step, goos, parse, join, args, stat, resolve,
                   s3Clnt, api, mu, calls, chans, mb, trip, add>>

callCheckCopySyntaxTypeA ==
    Check("checkCopySyntaxTypeA", checkCopySyntaxTypeA(args.srcURLs, args.tgtURL),
          statsOfTypeA(args.srcURLs, args.tgtURL))

callCheckCopySyntaxTypeB ==
    Check("checkCopySyntaxTypeB", checkCopySyntaxTypeB(args.srcURLs, args.tgtURL),
          statsOfTypeB(args.srcURLs, args.tgtURL))

callCheckCopySyntaxTypeC ==
    Check("checkCopySyntaxTypeC",
          checkCopySyntaxTypeC(args.srcURLs, args.tgtURL, args.isRecursive),
          statsOfTypeC(args.srcURLs, args.tgtURL, args.isRecursive))

callCheckCopySyntaxTypeD ==
    Check("checkCopySyntaxTypeD", checkCopySyntaxTypeD(args.srcURLs, args.tgtURL),
          statsOfTypeD(args.srcURLs, args.tgtURL))

NextCheck ==
    \/ callCheckCopySyntaxTypeA
    \/ callCheckCopySyntaxTypeB
    \/ callCheckCopySyntaxTypeC
    \/ callCheckCopySyntaxTypeD

SpecCheck == InitCheck /\ [][NextCheck]_vars

(***************************************************************************)
(* Claims about the classifier.                                            *)
(***************************************************************************)
\* the branch of the switch that belongs to a type
branchOf ==
    [A |-> "checkCopySyntaxTypeA", B |-> "checkCopySyntaxTypeB",
     C |-> "checkCopySyntaxTypeC", D |-> "checkCopySyntaxTypeD", Invalid |-> "default"]

classified == cp.pc \in {"switch", "return"} \/ cp.branch # "none"

\* the one source, when there is exactly one
oneSource == Len(args.srcURLs) = 1

endsInSeparator(url) == HasSuffix(url, NewURL(url).Separator)

\* the target is an existing bucket or directory
targetIsExistingDir == ~statErr(args.tgtURL) /\ IsDir(args.tgtURL)

\* the target is an object path: a regular object, or nothing that exists and
\* no trailing separator
targetIsObjectPath ==
    \/ ~statErr(args.tgtURL) /\ IsRegular(args.tgtURL)
    \/ statErr(args.tgtURL) /\ ~endsInSeparator(args.tgtURL)

\* C17: with exactly one source that does not end in the separator and
\* recursive = false, guessCopyURLType returns A when the target is not a
\* directory and B when the target is an existing bucket or directory.
C17_OneFileSource ==
    (classified /\ oneSource /\ ~endsInSeparator(args.srcURLs[1]) /\ ~args.isRecursive) =>
        /\ targetIsObjectPath => cp.copyURLsType = copyURLsTypeA
        /\ ~isTargetURLDir(args.tgtURL) => cp.copyURLsType = copyURLsTypeA
        /\ targetIsExistingDir => cp.copyURLsType = copyURLsTypeB

\* one object is copied into an existing bucket: type B, and its check has run
C17_Witness ==
    /\ args.srcURLs = <<"http://s/b/o">>
    /\ args.tgtURL = "http://s/b"
    /\ ~args.isRecursive
    /\ stat["http://s/b"] = "dir"
    /\ cp.copyURLsType = copyURLsTypeB
    /\ cp.branch = "checkCopySyntaxTypeB"

\* C18: with exactly one source ending in the separator and recursive = true,
\* guessCopyURLType returns C.
C18_OneDirSourceRecursive ==
    (classified /\ oneSource /\ endsInSeparator(args.srcURLs[1]) /\ args.isRecursive) =>
        cp.copyURLsType = copyURLsTypeC

\* C18 with the target it needs: with exactly one source ending in the
\* separator and recursive = true, guessCopyURLType returns C when the target
\* is directory-valued (an existing bucket or directory among them), and
\* Invalid when it is not.
C18_OneDirSourceRecursiveToDir ==
    (classified /\ oneSource /\ endsInSeparator(args.srcURLs[1]) /\ args.isRecursive) =>
        /\ targetIsExistingDir => cp.copyURLsType = copyURLsTypeC
        /\ isTargetURLDir(args.tgtURL) => cp.copyURLsType = copyURLsTypeC
        /\ ~isTargetURLDir(args.tgtURL) => cp.copyURLsType = copyURLsTypeInvalid

\* a bucket is copied recursively into an existing bucket: type C
C18_Witness ==
    /\ args.srcURLs = <<"http://s/b/">>
    /\ args.tgtURL = "http://s/b"
    /\ args.isRecursive
    /\ stat["http://s/b"] = "dir"
    /\ cp.copyURLsType = copyURLsTypeC
    /\ cp.branch = "checkCopySyntaxTypeC"

\* C19: with exactly one source ending in the separator and a target that
\* names a non-directory (an object path), guessCopyURLType returns Invalid,
\* for recursive = false and for recursive = true.
C19_DirSourceToObject ==
    (classified /\ oneSource /\ endsInSeparator(args.srcURLs[1]) /\ targetIsObjectPath) =>
        cp.copyURLsType = copyURLsTypeInvalid

\* a local directory against an object path, recursively: Invalid, and the
\* switch has taken its default branch
C19_Witness ==
    /\ args.srcURLs = <<"/t/">>
    /\ args.tgtURL = "http://s/b/o"
    /\ args.isRecursive
    /\ cp.copyURLsType = copyURLsTypeInvalid
    /\ cp.branch = "default"

\* C20: with more than one source, guessCopyURLType returns D when the target
\* is directory-valued and Invalid otherwise, the empty target included,
\* whatever the recursive flag and the shape of the sources.
C20_SeveralSources ==
    (classified /\ Len(args.srcURLs) > 1) =>
        /\ targetIsExistingDir => cp.copyURLsType = copyURLsTypeD
        /\ isTargetURLDir(args.tgtURL) => cp.copyURLsType = copyURLsTypeD
        /\ ~isTargetURLDir(args.tgtURL) => cp.copyURLsType = copyURLsTypeInvalid
        /\ targetIsObjectPath => cp.copyURLsType = copyURLsTypeInvalid
        /\ args.tgtURL = "" => cp.copyURLsType = copyURLsTypeInvalid

\* two sources of different shapes are copied recursively into an existing
\* bucket: type D
C20_Witness ==
    /\ args.srcURLs = <<"http://s/b/o", "/t/">>
    /\ args.tgtURL = "http://s/b"
    /\ args.isRecursive
    /\ stat["http://s/b"] = "dir"
    /\ cp.copyURLsType = copyURLsTypeD
    /\ cp.branch = "checkCopySyntaxTypeD"

(***************************************************************************)
(* Claims about the checks of checkCopySyntax.                             *)
(***************************************************************************)
\* C21: whenever the target parses to a location with a host and a path that
\* is the bare separator, checkCopySyntax aborts with a failure, for every
\* list of sources and both values of the recursive flag, before
\* guessCopyURLType is called and before any call of url2Stat.
C21_TargetWithoutBucketRejected ==
    (cp.pc \notin {"none", "checkCopySyntax"}
        /\ NewURL(args.tgtURL).Host # ""
        /\ NewURL(args.tgtURL).Path = NewURL(args.tgtURL).Separator) =>
            /\ cp.pc = "exit"
            /\ cp.exit = "fatal"
            /\ cp.copyURLsType = ""
            /\ cp.branch = "none"
            /\ cp.stats = {}

\* two sources, recursive, and a host without a bucket as target: aborted
C21_Witness ==
    /\ args.tgtURL = "http://s/"
    /\ Len(args.srcURLs) = 2
    /\ args.isRecursive
    /\ cp.pc = "exit"
    /\ cp.exit = "fatal"

\* the sole source of the call is a regular file
sourcePasses ==
    /\ Len(args.srcURLs) = 1
    /\ ~statErr(args.srcURLs[1])
    /\ IsRegular(args.srcURLs[1])

\* C22: the checks of type A and of type B pass only if there is exactly
\* one source and its stat succeeds with the type of a regular file; a
\* source that is a directory, or whose stat fails, aborts the command.
C22_FileSourceRequired ==
    cp.branch \in {"checkCopySyntaxTypeA", "checkCopySyntaxTypeB"} =>
        /\ cp.pc = "return" => sourcePasses
        /\ ~sourcePasses => cp.pc = "exit" /\ cp.exit = "fatal"

\* a directory was given as the sole source to the check of type B: aborted
C22_Witness ==
    /\ cp.branch = "checkCopySyntaxTypeB"
    /\ Len(args.srcURLs) = 1
    /\ stat[args.srcURLs[1]] = "dir"
    /\ cp.pc = "exit"
    /\ cp.exit = "fatal"

\* the sources pass the part of a check that comes before the target
sourcesPass ==
    IF cp.branch = "checkCopySyntaxTypeB" THEN sourcePasses
    ELSE IF cp.branch = "checkCopySyntaxTypeC"
    THEN /\ Len(args.srcURLs) = 1
         /\ ~statErr(args.srcURLs[1])
         /\ IsDir(args.srcURLs[1]) => args.isRecursive
    ELSE TRUE

\* C23: in the checks of types B, C and D a target whose stat succeeds and
\* that is not a directory aborts the command; a target whose stat fails is
\* accepted; the check of type D calls url2Stat on the target only, never
\* on a source.
C23_TargetValidation ==
    cp.branch \in {"checkCopySyntaxTypeB", "checkCopySyntaxTypeC",
                   "checkCopySyntaxTypeD"} =>
        /\ (~statErr(args.tgtURL) /\ ~IsDir(args.tgtURL)) => cp.pc = "exit"
        /\ (statErr(args.tgtURL) /\ sourcesPass) => cp.pc = "return"
        /\ cp.branch = "checkCopySyntaxTypeD" =>
              cp.stats = {<<"checkCopySyntaxTypeD", args.tgtURL>>}

\* sources that pass were given to the check of type C with a regular
\* object as target: aborted at the target
C23_Witness ==
    /\ cp.branch = "checkCopySyntaxTypeC"
    /\ sourcesPass
    /\ stat[args.tgtURL] = "regular"
    /\ cp.pc = "exit"
    /\ cp.exit = "fatal"

(***************************************************************************)
(* pkg/client/s3: the client of one location, and the bucket and object    *)
(* its URL names.                                                          *)
(***************************************************************************)
\* filepath.Match for a pattern of literal characters and '*': a '*' matches
\* any sequence of characters that are not the separator
RECURSIVE Match(_, _)
Match(pattern, name) ==
    IF pattern = "" THEN name = ""
    ELSE IF Char(pattern, 1) = "*"
         THEN \/ Match(SubSeq(pattern, 2, Len(pattern)), name)
              \/ /\ name # ""
                 /\ Char(name, 1) # filepathSeparator
                 /\ Match(pattern, SubSeq(name, 2, Len(name)))
         ELSE /\ name # ""
              /\ Char(name, 1) = Char(pattern, 1)
              /\ Match(SubSeq(pattern, 2, Len(pattern)), SubSeq(name, 2, Len(name)))

isVirtualHostStyle(hostURL) ==
    LET matchS3 == Match("*.s3*.amazonaws.com", hostURL)
        matchGoogle == Match("*.storage.googleapis.com", hostURL)
    IN  matchS3 \/ matchGoogle

\* strings.SplitN(s, sep, n) for n > 0 and a non-empty sep: at most n pieces,
\* the last one the unsplit remainder
RECURSIVE SplitN(_, _, _)
SplitN(s, sep, n) ==
    LET i == Index(s, sep)
    IN  IF n = 1 \/ i = 0 THEN <<s>>
        ELSE <<SubSeq(s, 1, i - 1)>> \o SplitN(SubSeq(s, i + Len(sep), Len(s)), sep, n - 1)

\* New(config): the fields of s3Client that the location decides
New(HostURL) ==
    LET u == NewURL(HostURL)
    IN  [hostURL |-> u, virtualStyle |-> isVirtualHostStyle(u.Host)]

\* <<bucketName, objectName>>
url2BucketAndObject(c) ==
    LET s3Index == Index(c.hostURL.Host, "s3")
        hostIndex == IF s3Index = 0 THEN Index(c.hostURL.Host, "storage.googleapis")
                     ELSE s3Index
        \* hostIndex is one more than the index Go counts from 0
        bucket == SubSeq(c.hostURL.Host, 1, hostIndex - 2)
        path == IF c.virtualStyle /\ hostIndex > 1
                THEN c.hostURL.Separator \o bucket \o c.hostURL.Path
                ELSE c.hostURL.Path
        splits == SplitN(path, c.hostURL.Separator, 3)
    IN  IF Len(splits) = 2 THEN <<splits[2], "">>
        ELSE IF Len(splits) = 3 THEN <<splits[2], splits[3]>>
        ELSE <<"", "">>

(***************************************************************************)
(* A bucket label and a key, resolved on the virtual-host-style host of a  *)
(* provider and on its path-style host.                                    *)
(***************************************************************************)
\* the hosts of the two providers with virtual-host style
Providers == {"s3.amazonaws.com", "storage.googleapis.com"}

\* bucket labels: letters, digits, '-', with and without the substring "s3"
LabelChunks == {"b", "s3", "-"}

Labels == StringsUpTo(LabelChunks, MaxLabel) \ {""}

Keys == {"", "k", "k/", "k/j"}

InitResolve ==
    /\ goos = "linux"
    /\ resolve \in {[NoResolve EXCEPT !.pc = "New", !.label = l, !.key = k, !.provider = p] :
                       l \in Labels, k \in Keys, p \in Providers}
    /\ config = NoConfig
    /\ cur = Idle
    /\ log = <<>>
    /\ step = NoStep
    /\ parse = NoParse
    /\ join = NoJoin
    /\ args = NoArgs
    /\ stat = NoStat
    /\ cp = NoCopy
    /\ s3Clnt = NoClient
    /\ api = NoApi
    /\ mu = 0
    /\ calls = NoCalls
    /\ chans = NoChans
    /\ mb = NoMb
    /\ trip = NoTrip
    /\ add = NoAdd

\* the two clients: https://<label>.<provider>/<key> and https://<provider>/<label>/<key>
resolveNew ==
    /\ resolve.pc = "New"
    /\ resolve' = [resolve EXCEPT
           !.pc = "url2BucketAndObject",
           !.virtual = New("https://" \o resolve.label \o "." \o resolve.provider
                           \o "/" \o resolve.key),
           !.pathStyle = New("https://" \o resolve.provider \o "/" \o resolve.label
                             \o "/" \o resolve.key)]
    /\ UNCHANGED <<config, cur, log, step, goos, parse, join, args, stat, cp, s3Clnt, api, mu, calls, chans, mb, trip, add>>

\* url2BucketAndObject on both clients
resolveUrl2BucketAndObject ==
    /\ resolve.pc = "url2BucketAndObject"
    /\ resolve' = [resolve EXCEPT
           !.pc = "done",
           !.virtualName = url2BucketAndObject(resolve.virtual),
           !.pathStyleName = url2BucketAndObject(resolve.pathStyle)]
    /\ UNCHANGED <<config, cur, log, step, goos, parse, join, args, stat, cp, s3Clnt, api, mu, calls, chans, mb, trip, add>>

NextResolve == resolveNew \/ resolveUrl2BucketAndObject

SpecResolve == InitResolve /\ [][NextResolve]_vars

(***************************************************************************)
(* The backend behind an s3Client (c.api) and the four listing routines.   *)
(* A routine is modelled by the sequence of Contents it sends, in order,   *)
(* up to its return; the deferred close follows.                           *)
(***************************************************************************)
\* path/filepath Clean of the elements of a path: "." is dropped, ".."
\* removes the element before it, or stays when there is none to remove
RECURSIVE cleanElements(_, _, _)
cleanElements(elements, rooted, out) ==
    IF elements = <<>> THEN out
    ELSE LET e == Head(elements)
             rest == Tail(elements)
         IN  IF e = "" \/ e = "." THEN cleanElements(rest, rooted, out)
             ELSE IF e # ".." THEN cleanElements(rest, rooted, Append(out, e))
             ELSE IF out # <<>> /\ out[Len(out)] # ".."
                  THEN cleanElements(rest, rooted, SubSeq(out, 1, Len(out) - 1))
             ELSE IF rooted THEN cleanElements(rest, rooted, out)
             ELSE cleanElements(rest, rooted, Append(out, e))

RECURSIVE joinElements(_, _)
joinElements(elements, sep) ==
    IF elements = <<>> THEN ""
    ELSE IF Len(elements) = 1 THEN elements[1]
    ELSE elements[1] \o sep \o joinElements(Tail(elements), sep)

\* filepath.Clean
Clean(path) ==
    LET rooted == HasPrefix(path, filepathSeparator)
        out == joinElements(cleanElements(Split(path, filepathSeparator), rooted, <<>>),
                            filepathSeparator)
    IN  IF rooted THEN filepathSeparator \o out
        ELSE IF out = "" THEN "."
        ELSE out

\* filepath.Join(elem...): the non-empty elements joined and cleaned
filepathJoin(elem) ==
    LET nonEmpty == SelectSeq(elem, LAMBDA e : e # "")
    IN  IF nonEmpty = <<>> THEN "" ELSE Clean(joinElements(nonEmpty, filepathSeparator))

\* what a channel of the backend yields: buckets (ListBuckets) and object or
\* upload keys (ListObjects, ListIncompleteUploads), each with or without Err
BucketStat(name) == [Err |-> FALSE, Name |-> name]

ObjectStat(key) == [Err |-> FALSE, Key |-> key]

ErrStat == [Err |-> TRUE, Name |-> "", Key |-> ""]

\* the sequences of at most n of the items, and those followed by one error:
\* the backend's enumeration ends when it has reported an error
RECURSIVE SeqsUpTo(_, _)
SeqsUpTo(items, n) ==
    IF n = 0 THEN {<<>>}
    ELSE LET shorter == SeqsUpTo(items, n - 1)
         IN  shorter \cup {Append(s, i) : s \in shorter, i \in items}

Enumerations(items, n) ==
    SeqsUpTo(items, n) \cup {Append(s, ErrStat) : s \in SeqsUpTo(items, n - 1)}

\* the part of an enumeration up to its first error, the error included
RECURSIVE UpToFirstErr(_)
UpToFirstErr(s) ==
    IF s = <<>> THEN <<>>
    ELSE IF Head(s).Err THEN <<Head(s)>>
    ELSE <<Head(s)>> \o UpToFirstErr(Tail(s))

RECURSIVE Flatten(_)
Flatten(ss) == IF ss = <<>> THEN <<>> ELSE Head(ss) \o Flatten(Tail(ss))

\* os.ModeDir, os.FileMode(0664), os.ModeTemporary
ModeDir == "ModeDir"
ModeRegular == "0664"
ModeTemporary == "ModeTemporary"

\* &client.Content{Err: ...} and a Content with a URL and a Type
ErrContent == [Err |-> TRUE, URL |-> NoURL, Type |-> ""]

Content(url, type) == [Err |-> FALSE, URL |-> url, Type |-> type]

\* url := *c.hostURL; url.Path = filepath.Join(string(url.Separator), b, object.Key),
\* and without the bucket when the client is virtual-host style
keyURL(c, b, key) ==
    [c.hostURL EXCEPT !.Path = IF c.virtualStyle
                               THEN filepathJoin(<<c.hostURL.Separator, key>>)
                               ELSE filepathJoin(<<c.hostURL.Separator, b, key>>)]

\* url.Path = filepath.Join(url.Path, bucket.Name, object.Key) of the root listings
rootURL(c, name, key) ==
    [c.hostURL EXCEPT !.Path = filepathJoin(<<c.hostURL.Path, name, key>>)]

\* the Contents of the keys of one enumeration: a key that ends in the
\* separator is a directory when dirs is set
keyContents(c, b, objects, type, dirs) ==
    [i \in 1..Len(objects) |->
        IF objects[i].Err THEN ErrContent
        ELSE Content(keyURL(c, b, objects[i].Key),
                     IF dirs /\ HasSuffix(objects[i].Key, c.hostURL.Separator)
                     THEN ModeDir ELSE type)]

listIncompleteInRoutine(c, svc) ==
    LET b == url2BucketAndObject(c)[1]
        o == url2BucketAndObject(c)[2]
        buckets == UpToFirstErr(svc.buckets)
    IN  IF b = "" /\ o = ""
        THEN UpToFirstErr(Flatten([i \in 1..Len(buckets) |->
                 IF buckets[i].Err THEN <<ErrContent>>
                 ELSE keyContents(c, buckets[i].Name, svc.objects, ModeTemporary, TRUE)]))
        ELSE UpToFirstErr(keyContents(c, b, svc.objects, ModeTemporary, TRUE))

listIncompleteRecursiveInRoutine(c, svc) ==
    LET b == url2BucketAndObject(c)[1]
        o == url2BucketAndObject(c)[2]
        buckets == UpToFirstErr(svc.buckets)
    IN  IF b = "" /\ o = ""
        THEN UpToFirstErr(Flatten([i \in 1..Len(buckets) |->
                 IF buckets[i].Err THEN <<ErrContent>>
                 ELSE [j \in 1..Len(svc.objects) |->
                          IF svc.objects[j].Err THEN ErrContent
                          ELSE Content(rootURL(c, buckets[i].Name, svc.objects[j].Key),
                                       ModeTemporary)]]))
        ELSE UpToFirstErr(keyContents(c, b, svc.objects, ModeTemporary, FALSE))

listInRoutine(c, svc) ==
    LET b == url2BucketAndObject(c)[1]
        o == url2BucketAndObject(c)[2]
        buckets == UpToFirstErr(svc.buckets)
    IN  IF b = "" /\ o = ""
        THEN [i \in 1..Len(buckets) |->
                 IF buckets[i].Err THEN ErrContent
                 ELSE Content(rootURL(c, buckets[i].Name, ""), ModeDir)]
        ELSE IF b # "" /\ ~HasSuffix(c.hostURL.Path, c.hostURL.Separator) /\ o = ""
        THEN (IF svc.bucketExists THEN <<>> ELSE <<ErrContent>>)
             \o <<Content(c.hostURL, ModeDir)>>
        ELSE IF svc.statObject = "ok" THEN <<Content(c.hostURL, ModeRegular)>>
        ELSE UpToFirstErr(keyContents(c, b, svc.objects, ModeRegular, TRUE))

\* listRecursiveInRoutine with the directory case of listInRoutine (lines
\* 731-735) in its object listing
listRecursiveInRoutine_dirs(c, svc) ==
    LET b == url2BucketAndObject(c)[1]
        o == url2BucketAndObject(c)[2]
        buckets == UpToFirstErr(svc.buckets)
    IN  IF b = "" /\ o = ""
        THEN Flatten([i \in 1..Len(buckets) |->
                 IF buckets[i].Err THEN <<ErrContent>>
                 ELSE <<Content(rootURL(c, buckets[i].Name, ""), ModeDir)>>
                      \o [j \in 1..Len(svc.objects) |->
                             IF svc.objects[j].Err THEN ErrContent
                             ELSE Content(rootURL(c, buckets[i].Name, svc.objects[j].Key),
                                          ModeRegular)]])
        ELSE keyContents(c, b, svc.objects, ModeRegular, TRUE)

listRecursiveInRoutine(c, svc) ==
    LET b == url2BucketAndObject(c)[1]
        o == url2BucketAndObject(c)[2]
        buckets == UpToFirstErr(svc.buckets)
    IN  IF b = "" /\ o = ""
        THEN Flatten([i \in 1..Len(buckets) |->
                 IF buckets[i].Err THEN <<ErrContent>>
                 ELSE <<Content(rootURL(c, buckets[i].Name, ""), ModeDir)>>
                      \o [j \in 1..Len(svc.objects) |->
                             IF svc.objects[j].Err THEN ErrContent
                             ELSE Content(rootURL(c, buckets[i].Name, svc.objects[j].Key),
                                          ModeRegular)]])
        ELSE keyContents(c, b, svc.objects, ModeRegular, FALSE)

\* the routine List starts for its two flags
routineOf(recursive, incomplete) ==
    IF incomplete
    THEN (IF recursive THEN "listIncompleteRecursiveInRoutine" ELSE "listIncompleteInRoutine")
    ELSE (IF recursive THEN "listRecursiveInRoutine" ELSE "listInRoutine")

\* what the routine sends on contentCh, in order
contentsOf(routine, c, svc) ==
    IF routine = "listIncompleteInRoutine" THEN listIncompleteInRoutine(c, svc)
    ELSE IF routine = "listIncompleteRecursiveInRoutine"
         THEN listIncompleteRecursiveInRoutine(c, svc)
    ELSE IF routine = "listRecursiveInRoutine" THEN listRecursiveInRoutine(c, svc)
    ELSE listInRoutine(c, svc)

(***************************************************************************)
(* Stat and List on one s3Client called by concurrent callers; each List   *)
(* starts a producer goroutine that sends on an unbuffered channel, which  *)
(* the caller receives from until it is closed, or abandons.               *)
(***************************************************************************)
Callers == {1, 2}

\* c.mu.Lock() of caller p: waits until the mutex is free
Lock_noWait(p) == mu' = p

Lock(p) == mu = 0 /\ mu' = p

\* what Stat returns: (*client.Content, *probe.Error)
StatContent(content) == [content |-> content, err |-> ""]

StatError(err) == [content |-> NilContent, err |-> err]

\* line 446: the prefix of the listing Stat falls back to
prefixNameOf(c, object) ==
    (IF HasSuffix(object, c.hostURL.Separator)
     THEN SubSeq(object, 1, Len(object) - Len(c.hostURL.Separator))
     ELSE object) \o c.hostURL.Separator

\* lines 447-456 with the error of the listing taken for a missing path
statFallbackResult_errIsNotFound(c, svc) ==
    IF svc.objects = <<>> \/ svc.objects[1].Err
    THEN StatError("PathNotFound:" \o c.hostURL.Path)
    ELSE StatContent(Content(c.hostURL, ModeDir))

\* lines 447-456: the first item of the listing decides
statFallbackResult(c, svc) ==
    IF svc.objects = <<>> THEN StatError("PathNotFound:" \o c.hostURL.Path)
    ELSE IF svc.objects[1].Err THEN StatError("ListObjects")
    ELSE StatContent(Content(c.hostURL, ModeDir))

\* Stat: c.mu.Lock()
statLock(p) ==
    /\ calls[p].pc = "Stat"
    /\ Lock(p)
    /\ calls' = [calls EXCEPT ![p].pc = "Stat.locked"]
    /\ UNCHANGED <<config, cur, log, step, goos, parse, join, args, stat, cp, resolve,
                   s3Clnt, api, chans, mb, trip, add>>

\* statLocked without the Unlock of line 438 on the way to the listing of
\* lines 444-456
statLocked_fallbackLocked(p) ==
    /\ calls[p].pc = "Stat.locked"
    /\ LET bucket == url2BucketAndObject(s3Clnt)[1]
           object == url2BucketAndObject(s3Clnt)[2]
           buckets == UpToFirstErr(api.buckets)
           return(r) == [calls[p] EXCEPT !.pc = "returned", !.ret = r,
                                         !.unlocks = calls[p].unlocks + 1]
       IN  calls' = [calls EXCEPT ![p] =
               IF bucket = "" /\ object = ""
               THEN IF \E i \in 1..Len(buckets) : buckets[i].Err
                    THEN return(StatError("ListBuckets"))
                    ELSE return(StatContent(Content(s3Clnt.hostURL, ModeDir)))
               ELSE IF object # ""
               THEN IF api.statObject = "ok"
                    THEN return(StatContent(Content(s3Clnt.hostURL, ModeRegular)))
                    ELSE IF api.statObject = "NoSuchKey"
                    THEN [calls[p] EXCEPT !.pc = "Stat.fallback",
                                          !.prefixName = prefixNameOf(s3Clnt, object)]
                    ELSE return(StatError(api.statObject))
               ELSE IF api.bucketExists
                    THEN return(StatContent(Content(s3Clnt.hostURL, ModeDir)))
                    ELSE return(StatError("BucketExists"))]
    /\ mu' = IF calls'[p].pc = "Stat.fallback" THEN mu ELSE 0
    /\ UNCHANGED <<config, cur, log, step, goos, parse, join, args, stat, cp, resolve,
                   s3Clnt, api, chans, mb, trip, add>>

\* Stat, lines 421-477: the backend is asked under the mutex; every path
\* unlocks once; a missing object goes on to the listing of lines 444-456
statLocked(p) ==
    /\ calls[p].pc = "Stat.locked"
    /\ LET bucket == url2BucketAndObject(s3Clnt)[1]
           object == url2BucketAndObject(s3Clnt)[2]
           buckets == UpToFirstErr(api.buckets)
           return(r) == [calls[p] EXCEPT !.pc = "returned", !.ret = r,
                                         !.unlocks = calls[p].unlocks + 1]
       IN  calls' = [calls EXCEPT ![p] =
               IF bucket = "" /\ object = ""
               THEN IF \E i \in 1..Len(buckets) : buckets[i].Err
                    THEN return(StatError("ListBuckets"))
                    ELSE return(StatContent(Content(s3Clnt.hostURL, ModeDir)))
               ELSE IF object # ""
               THEN IF api.statObject = "ok"
                    THEN return(StatContent(Content(s3Clnt.hostURL, ModeRegular)))
                    ELSE IF api.statObject = "NoSuchKey"
                    THEN [calls[p] EXCEPT !.pc = "Stat.fallback",
                                          !.unlocks = calls[p].unlocks + 1,
                                          !.prefixName = prefixNameOf(s3Clnt, object)]
                    ELSE return(StatError(api.statObject))
               ELSE IF api.bucketExists
                    THEN return(StatContent(Content(s3Clnt.hostURL, ModeDir)))
                    ELSE return(StatError("BucketExists"))]
    /\ mu' = 0
    /\ UNCHANGED <<config, cur, log, step, goos, parse, join, args, stat, cp, resolve,
                   s3Clnt, api, chans, mb, trip, add>>

\* Stat, lines 444-456: the one-level listing under prefixName, outside the mutex
statFallback(p) ==
    /\ calls[p].pc = "Stat.fallback"
    /\ calls' = [calls EXCEPT ![p].pc = "returned",
                              ![p].ret = statFallbackResult(s3Clnt, api)]
    /\ UNCHANGED <<config, cur, log, step, goos, parse, join, args, stat, cp, resolve,
                   s3Clnt, api, mu, chans, mb, trip, add>>

\* List: c.mu.Lock()
listLock(p) ==
    /\ calls[p].pc = "List"
    /\ Lock(p)
    /\ calls' = [calls EXCEPT ![p].pc = "List.locked"]
    /\ UNCHANGED <<config, cur, log, step, goos, parse, join, args, stat, cp, resolve,
                   s3Clnt, api, chans, mb, trip, add>>

\* listBody without the deferred Unlock of line 527: List returns the channel
\* holding the mutex
listBody_noUnlock(p) ==
    /\ calls[p].pc = "List.locked"
    /\ LET routine == routineOf(calls[p].recursive, calls[p].incomplete)
       IN  chans' = [chans EXCEPT ![p] =
               [made |-> TRUE, routine |-> routine, pc |-> "go",
                contents |-> contentsOf(routine, s3Clnt, api), sent |-> 0, closes |-> 0]]
    /\ calls' = [calls EXCEPT ![p].pc = "receiving"]
    /\ mu' = mu
    /\ UNCHANGED <<config, cur, log, step, goos, parse, join, args, stat, cp, resolve,
                   s3Clnt, api, mb, trip, add>>

\* List, lines 529-543: the channel is made, the routine is started with the
\* Contents it has to send, the deferred Unlock runs and the caller has the
\* channel to receive from
listBody(p) ==
    /\ calls[p].pc = "List.locked"
    /\ LET routine == routineOf(calls[p].recursive, calls[p].incomplete)
       IN  chans' = [chans EXCEPT ![p] =
               [made |-> TRUE, routine |-> routine, pc |-> "go",
                contents |-> contentsOf(routine, s3Clnt, api), sent |-> 0, closes |-> 0]]
    /\ calls' = [calls EXCEPT ![p].pc = "receiving",
                              ![p].unlocks = calls[p].unlocks + 1]
    /\ mu' = 0
    /\ UNCHANGED <<config, cur, log, step, goos, parse, join, args, stat, cp, resolve,
                   s3Clnt, api, mb, trip, add>>

\* the routine runs up to its first send, or to its return when it sends nothing
routineRun(p) ==
    /\ chans[p].pc = "go"
    /\ chans' = [chans EXCEPT ![p].pc =
           IF chans[p].contents = <<>> THEN "return" ELSE "send"]
    /\ UNCHANGED <<config, cur, log, step, goos, parse, join, args, stat, cp, resolve,
                   s3Clnt, api, mu, calls, mb, trip, add>>

\* a send that does not wait for a receiver, as on a buffered channel
routineSend_buffered(p) ==
    /\ chans[p].pc = "send"
    /\ chans' = [chans EXCEPT
           ![p].sent = chans[p].sent + 1,
           ![p].pc = IF chans[p].sent + 1 = Len(chans[p].contents)
                     THEN "return" ELSE "send"]
    /\ UNCHANGED <<config, cur, log, step, goos, parse, join, args, stat, cp, resolve,
                   s3Clnt, api, mu, calls, mb, trip, add>>

\* contentCh <- content meets the caller's receive; the routine runs on to
\* its next send or to its return
routineSend(p) ==
    /\ chans[p].pc = "send"
    /\ calls[p].pc = "receiving"
    /\ chans' = [chans EXCEPT
           ![p].sent = chans[p].sent + 1,
           ![p].pc = IF chans[p].sent + 1 = Len(chans[p].contents)
                     THEN "return" ELSE "send"]
    /\ UNCHANGED <<config, cur, log, step, goos, parse, join, args, stat, cp, resolve,
                   s3Clnt, api, mu, calls, mb, trip, add>>

\* the routine returns and leaves the channel open
routineClose_noClose(p) ==
    /\ chans[p].pc = "return"
    /\ chans' = [chans EXCEPT ![p].pc = "returned"]
    /\ UNCHANGED <<config, cur, log, step, goos, parse, join, args, stat, cp, resolve,
                   s3Clnt, api, mu, calls, mb, trip, add>>

\* defer close(contentCh)
routineClose(p) ==
    /\ chans[p].pc = "return"
    /\ chans' = [chans EXCEPT ![p].pc = "closed", ![p].closes = chans[p].closes + 1]
    /\ UNCHANGED <<config, cur, log, step, goos, parse, join, args, stat, cp, resolve,
                   s3Clnt, api, mu, calls, mb, trip, add>>

\* the caller's receive finds the channel closed: the range loop ends
receiveClosed(p) ==
    /\ calls[p].pc = "receiving"
    /\ chans[p].pc = "closed"
    /\ calls' = [calls EXCEPT ![p].pc = "drained"]
    /\ UNCHANGED <<config, cur, log, step, goos, parse, join, args, stat, cp, resolve,
                   s3Clnt, api, mu, chans, mb, trip, add>>

\* the caller stops receiving before the channel is closed
abandon(p) ==
    /\ calls[p].pc = "receiving"
    /\ chans[p].pc # "closed"
    /\ calls' = [calls EXCEPT ![p].pc = "abandoned"]
    /\ UNCHANGED <<config, cur, log, step, goos, parse, join, args, stat, cp, resolve,
                   s3Clnt, api, mu, chans, mb, trip, add>>

NextS3 ==
    \/ \E p \in Callers : statLock(p)
    \/ \E p \in Callers : statLocked(p)
    \/ \E p \in Callers : statFallback(p)
    \/ \E p \in Callers : listLock(p)
    \/ \E p \in Callers : listBody(p)
    \/ \E p \in Callers : routineRun(p)
    \/ \E p \in Callers : routineSend(p)
    \/ \E p \in Callers : routineClose(p)
    \/ \E p \in Callers : receiveClosed(p)
    \/ \E p \in Callers : abandon(p)

\* the locations of the client: the root of a host, a bucket without and with
\* a trailing separator, an object, a prefix, an object on a virtual-host-style host
HostURLs ==
    {"https://s3.amazonaws.com", "https://s3.amazonaws.com/b", "https://s3.amazonaws.com/b/",
     "https://s3.amazonaws.com/b/k", "https://s3.amazonaws.com/b/k/",
     "https://b.s3.amazonaws.com/k"}

\* the backends whose enumerations have at most nb buckets and nk keys
Backends(nb, nk) ==
    [buckets : Enumerations({BucketStat("b")}, nb),
     objects : Enumerations({ObjectStat("j"), ObjectStat("d/")}, nk),
     statObject : {"ok", "NoSuchKey", "AccessDenied"},
     bucketExists : BOOLEAN]

\* the calls a caller may make
StatCall == [NoCall EXCEPT !.op = "Stat", !.pc = "Stat"]

ListCalls ==
    {[NoCall EXCEPT !.op = "List", !.pc = "List", !.recursive = r, !.incomplete = i] :
        r \in BOOLEAN, i \in BOOLEAN}

\* one caller, any backend
InitList ==
    /\ goos = "linux"
    /\ s3Clnt \in {New(u) : u \in HostURLs}
    /\ api \in Backends(MaxBuckets, MaxKeys)
    /\ mu = 0
    /\ calls \in {[p \in Callers |-> IF p = 1 THEN call ELSE NoCall] :
                     call \in {StatCall} \cup ListCalls}
    /\ chans = [p \in Callers |-> NoChan]
    /\ config = NoConfig
    /\ cur = Idle
    /\ log = <<>>
    /\ step = NoStep
    /\ parse = NoParse
    /\ join = NoJoin
    /\ args = NoArgs
    /\ stat = NoStat
    /\ cp = NoCopy
    /\ resolve = NoResolve
    /\ mb = NoMb
    /\ trip = NoTrip
    /\ add = NoAdd

SpecList == InitList /\ [][NextS3]_vars

\* the goroutine of a routine is scheduled, and a caller that has not
\* abandoned its channel is there to receive what the routine sends
FairSpecList ==
    /\ SpecList
    /\ \A p \in Callers : WF_vars(routineRun(p) \/ routineSend(p) \/ routineClose(p))

\* two concurrent callers on a backend with short enumerations
InitS3 ==
    /\ goos = "linux"
    /\ s3Clnt \in {New(u) : u \in HostURLs}
    /\ api \in Backends(1, 1)
    /\ mu = 0
    /\ calls \in [Callers -> {StatCall} \cup ListCalls]
    /\ chans = [p \in Callers |-> NoChan]
    /\ config = NoConfig
    /\ cur = Idle
    /\ log = <<>>
    /\ step = NoStep
    /\ parse = NoParse
    /\ join = NoJoin
    /\ args = NoArgs
    /\ stat = NoStat
    /\ cp = NoCopy
    /\ resolve = NoResolve
    /\ mb = NoMb
    /\ trip = NoTrip
    /\ add = NoAdd

SpecS3 == InitS3 /\ [][NextS3]_vars

(***************************************************************************)
(* Claims about the s3 client.                                             *)
(***************************************************************************)
\* C11: virtual-host bucket extraction.  For every bucket label L and key K,
\* url2BucketAndObject on host L.s3.amazonaws.com (or L.storage.googleapis.com)
\* with path /K returns bucket L and object K, the pair it returns for the
\* path-style location of the provider with path /L/K, for every label L,
\* labels that contain "s3" included.
C11_VirtualHostBucket ==
    resolve.pc = "done" =>
        /\ resolve.virtual.virtualStyle
        /\ resolve.virtualName = <<resolve.label, resolve.key>>
        /\ resolve.virtualName = resolve.pathStyleName

\* C11 for the labels that do not contain "s3"
C11_LabelsWithoutS3 ==
    (resolve.pc = "done" /\ ~Contains(resolve.label, "s3")) =>
        /\ resolve.virtual.virtualStyle
        /\ resolve.virtualName = <<resolve.label, resolve.key>>
        /\ resolve.virtualName = resolve.pathStyleName

\* the Contents caller p has received from its channel, oldest first
received(p) == SubSeq(chans[p].contents, 1, chans[p].sent)

\* in the listings of caller p made by one of the given routines, a Content
\* that carries an error is the last one sent and the routine is past its sends
errorEndsListing(routines) ==
    \A p \in Callers :
        (chans[p].made /\ chans[p].routine \in routines) =>
            \A i \in 1..chans[p].sent :
                received(p)[i].Err =>
                    /\ i = chans[p].sent
                    /\ chans[p].pc \in {"return", "closed"}

\* C12: in every List variant, once the routine has sent a Content that
\* carries an error, it sends no further Content and closes the channel.
C12_ErrorEndsListing ==
    errorEndsListing({"listInRoutine", "listRecursiveInRoutine",
                      "listIncompleteInRoutine", "listIncompleteRecursiveInRoutine"})

\* the part of C12 that the code keeps: the two listings of incomplete uploads
C12_IncompleteListings ==
    errorEndsListing({"listIncompleteInRoutine", "listIncompleteRecursiveInRoutine"})

\* where C12 fails in listInRoutine: the directory sent after the error of BucketExists
C12_ListErrorIsLast == errorEndsListing({"listInRoutine"})

\* where C12 fails in listRecursiveInRoutine: the loops go on after an error
C12_ListRecursiveErrorIsLast == errorEndsListing({"listRecursiveInRoutine"})

\* C13: when the caller keeps receiving (the enumerations of the backend are
\* finite), the routine of every List eventually returns and closes its
\* channel; the channel is closed exactly once and nothing is sent on it
\* after the close.
C13_ListingTerminates ==
    /\ \A p \in Callers :
           chans[p].made ~> (chans[p].pc = "closed" \/ calls[p].pc = "abandoned")
    /\ [](\A p \in Callers : chans[p].closes = IF chans[p].pc = "closed" THEN 1 ELSE 0)
    /\ [][\A p \in Callers : chans[p].pc = "closed" => chans'[p] = chans[p]]_vars

\* a listing of two Contents or more was received to its end and its channel is closed
C13_Witness ==
    /\ calls[1].pc = "drained"
    /\ chans[1].pc = "closed"
    /\ chans[1].closes = 1
    /\ chans[1].sent >= 2

\* C14: there is no cancellation: when the caller has stopped receiving while
\* the routine has a Content to send, the routine stays at that send for
\* ever; it never returns and the channel is never closed.
C14_AbandonedRoutineBlocks ==
    [][\A p \in Callers :
          (calls[p].pc = "abandoned" /\ chans[p].pc = "send") =>
              /\ calls'[p].pc = "abandoned"
              /\ chans'[p].pc = "send"
              /\ chans'[p].sent = chans[p].sent
              /\ chans'[p].closes = 0]_vars

\* a caller has received one Content and abandoned the channel while the
\* routine has another one to send
C14_Witness ==
    /\ calls[1].pc = "abandoned"
    /\ chans[1].pc = "send"
    /\ chans[1].sent = 1
    /\ Len(chans[1].contents) >= 2

\* the callers between Lock and Unlock of Stat, or in the body of List
inRegion == {p \in Callers : calls[p].pc \in {"Stat.locked", "List.locked"}}

\* C15: on one s3Client, the region of Stat between Lock and Unlock and the
\* body of List exclude one another: at most one caller is in one of them,
\* and it is the caller that holds the mutex.
C15_MutualExclusion ==
    /\ Cardinality(inRegion) <= 1
    /\ \A p \in inRegion : mu = p
    /\ inRegion = {} => mu = 0

\* a caller is inside Stat's region while another one waits at the Lock of List
C15_Witness ==
    /\ calls[1].pc = "Stat.locked"
    /\ calls[2].pc = "List"
    /\ mu = 1

\* the callers whose Stat of an object location has returned after StatObject
\* failed with NoSuchKey
statMissed ==
    {p \in Callers :
        /\ calls[p].op = "Stat"
        /\ calls[p].pc = "returned"
        /\ url2BucketAndObject(s3Clnt)[2] # ""
        /\ api.statObject = "NoSuchKey"}

\* the entries the listing under prefixName yields
listedEntries == {i \in 1..Len(api.objects) : ~api.objects[i].Err}

\* C16: for an object location whose StatObject fails with NoSuchKey, Stat
\* lists one level under the object name plus one trailing separator; when
\* the listing yields at least one entry Stat returns a directory Content
\* with the original location, and otherwise a not-found failure for it.
C16_StatFallback ==
    \A p \in statMissed :
        /\ calls[p].prefixName =
               url2BucketAndObject(s3Clnt)[2] \o s3Clnt.hostURL.Separator
        /\ calls[p].ret =
               IF listedEntries # {}
               THEN StatContent(Content(s3Clnt.hostURL, ModeDir))
               ELSE StatError("PathNotFound:" \o s3Clnt.hostURL.Path)

\* C16 as the code has it: the listing is under the object name with one
\* trailing separator, whether or not the name already ends in one; when the
\* listing reports an error before any entry, Stat returns that error; when
\* it yields an entry, a directory Content with the original location; when
\* it yields nothing, a not-found failure for the path of the location.
C16_StatFallbackOrError ==
    \A p \in statMissed :
        LET object == url2BucketAndObject(s3Clnt)[2]
            sep == s3Clnt.hostURL.Separator
        IN  /\ calls[p].prefixName =
                   IF HasSuffix(object, sep) THEN object ELSE object \o sep
            /\ calls[p].ret =
                   IF api.objects = <<>>
                   THEN StatError("PathNotFound:" \o s3Clnt.hostURL.Path)
                   ELSE IF api.objects[1].Err THEN StatError("ListObjects")
                   ELSE StatContent(Content(s3Clnt.hostURL, ModeDir))

\* a Stat of a missing object has found entries under it and returned a directory
C16_Witness ==
    /\ 1 \in statMissed
    /\ calls[1].prefixName = "k/"
    /\ calls[1].ret.err = ""
    /\ calls[1].ret.content.Type = ModeDir
    /\ calls[1].ret.content.URL = s3Clnt.hostURL

(***************************************************************************)
(* mc mb: MakeBucket of the s3 client and the loop of mainMakeBucket over  *)
(* its targets.                                                            *)
(***************************************************************************)
Digits == "0123456789"

IsDigit(c) == \E i \in 1..10 : c = Char(Digits, i)

\* regexp.MatchString("^[a-zA-Z][a-zA-Z0-9\\-]+[a-zA-Z0-9]$", bucket)
MatchString(bucket) ==
    /\ Len(bucket) >= 3
    /\ IsLetter(Char(bucket, 1))
    /\ \A i \in 2..(Len(bucket) - 1) :
           IsLetter(Char(bucket, i)) \/ IsDigit(Char(bucket, i)) \/ Char(bucket, i) = "-"
    /\ IsLetter(Char(bucket, Len(bucket))) \/ IsDigit(Char(bucket, Len(bucket)))

\* lines 366-384 without the test of the object
MakeBucket_anyObject(c, apiFails) ==
    LET bucket == url2BucketAndObject(c)[1]
        object == url2BucketAndObject(c)[2]
        return(called, err) ==
            [bucket |-> bucket, object |-> object, called |-> called, err |-> err]
    IN  IF Len(bucket) < 3 \/ Len(bucket) > 63 THEN return(FALSE, "length")
        ELSE IF ~MatchString(bucket) THEN return(FALSE, "match")
        ELSE IF apiFails THEN return(TRUE, "api")
        ELSE return(TRUE, "")

\* s3Client.MakeBucket: the bucket and object of the call, whether
\* c.api.MakeBucket was called, and the error returned ("" for nil)
MakeBucket(c, apiFails) ==
    LET bucket == url2BucketAndObject(c)[1]
        object == url2BucketAndObject(c)[2]
        return(called, err) ==
            [bucket |-> bucket, object |-> object, called |-> called, err |-> err]
    IN  IF object # "" THEN return(FALSE, "BucketNameTopLevel")
        ELSE IF Len(bucket) < 3 \/ Len(bucket) > 63 THEN return(FALSE, "length")
        ELSE IF ~MatchString(bucket) THEN return(FALSE, "match")
        ELSE IF apiFails THEN return(TRUE, "api")
        ELSE return(TRUE, "")

RECURSIVE Repeat(_, _)
Repeat(s, n) == IF n = 0 THEN "" ELSE s \o Repeat(s, n - 1)

\* the targets of mc mb: bucket names of every kind on a path-style host, a
\* host without a bucket, an object, a bucket on a virtual-host-style host,
\* names of 63 and of 64 characters, and a blank argument
Targets ==
    {"https://s3.amazonaws.com/" \o name :
        name \in {"", "ab", "abc", "a-9", "aB9", "ab-", "9bc", "-bc", "a.c", "abc/o",
                  "abc/", "a" \o Repeat("b", 62), "a" \o Repeat("b", 63)}}
    \cup {"https://abc.s3.amazonaws.com", " "}

TrimSpace(s) == IF s = " " THEN "" ELSE s

InitMb ==
    /\ goos = "linux"
    /\ mb \in {[NoMb EXCEPT !.pc = "checkMakeBucketSyntax", !.URLs = urls] :
                  urls \in UNION {[1..n -> Targets] : n \in 1..MaxTargets}}
    /\ config = NoConfig
    /\ cur = Idle
    /\ log = <<>>
    /\ step = NoStep
    /\ parse = NoParse
    /\ join = NoJoin
    /\ args = NoArgs
    /\ stat = NoStat
    /\ cp = NoCopy
    /\ resolve = NoResolve
    /\ s3Clnt = NoClient
    /\ api = NoApi
    /\ mu = 0
    /\ calls = NoCalls
    /\ chans = NoChans
    /\ trip = NoTrip
    /\ add = NoAdd

\* checkMakeBucketSyntax: a blank argument is fatal
checkMakeBucketSyntax ==
    /\ mb.pc = "checkMakeBucketSyntax"
    /\ IF \E i \in 1..Len(mb.URLs) : TrimSpace(mb.URLs[i]) = ""
       THEN mb' = [mb EXCEPT !.pc = "exit"]
       ELSE mb' = [mb EXCEPT !.pc = "loop", !.i = 1]
    /\ UNCHANGED <<config, cur, log, step, goos, parse, join, args, stat, cp, resolve,
                   s3Clnt, api, mu, calls, chans, trip, add>>

\* lines 115-116: url2Client fails for the target and fatalIf exits
mbUrl2ClientFails ==
    /\ mb.pc = "loop"
    /\ mb' = [mb EXCEPT !.pc = "exit",
                        !.msgs = Append(mb.msgs, [kind |-> "fatal", target |-> mb.URLs[mb.i]])]
    /\ UNCHANGED <<config, cur, log, step, goos, parse, join, args, stat, cp, resolve,
                   s3Clnt, api, mu, calls, chans, trip, add>>

\* lines 115-128: the client of the target is made, MakeBucket is called on
\* it, its error or the success is reported and the loop goes to the next target
mbMakeBucket ==
    /\ mb.pc = "loop"
    /\ \E apiFails \in BOOLEAN :
        LET targetURL == mb.URLs[mb.i]
            r == MakeBucket(New(targetURL), apiFails)
        IN  mb' = [mb EXCEPT
                !.attempts = Append(mb.attempts,
                    [target |-> targetURL, bucket |-> r.bucket, object |-> r.object,
                     called |-> r.called, err |-> r.err]),
                !.msgs = Append(mb.msgs,
                    [kind |-> IF r.err # "" THEN "error" ELSE "success",
                     target |-> targetURL]),
                !.i = mb.i + 1,
                !.pc = IF mb.i = Len(mb.URLs) THEN "return" ELSE "loop"]
    /\ UNCHANGED <<config, cur, log, step, goos, parse, join, args, stat, cp, resolve,
                   s3Clnt, api, mu, calls, chans, trip, add>>

NextMb ==
    \/ checkMakeBucketSyntax
    \/ mbUrl2ClientFails
    \/ mbMakeBucket

SpecMb == InitMb /\ [][NextMb]_vars

(***************************************************************************)
(* Claims about mc mb.                                                     *)
(***************************************************************************)
\* a name of 3 to 63 characters: a letter, then letters, digits and hyphens,
\* then a letter or a digit
validBucketName(name) ==
    LET alnum(c) == IsLetter(c) \/ IsDigit(c)
    IN  /\ Len(name) \in 3..63
        /\ IsLetter(Char(name, 1))
        /\ alnum(Char(name, Len(name)))
        /\ \A i \in 1..Len(name) : alnum(Char(name, i)) \/ Char(name, i) = "-"

\* C24: MakeBucket calls the bucket creation of the backend only when the
\* location has no object and the bucket name has 3 to 63 characters and is
\* a letter, then letters, digits and hyphens, then a letter or a digit; in
\* every other case it returns an error and makes no call of the backend.
C24_MakeBucketValidates ==
    \A i \in 1..Len(mb.attempts) :
        LET a == mb.attempts[i]
        IN  /\ a.called <=> (a.object = "" /\ validBucketName(a.bucket))
            /\ ~a.called => a.err # ""

\* MakeBucket has refused a location with an object and a name of 64
\* characters, and has called the backend for a name of 63
C24_Witness ==
    /\ Len(mb.attempts) = 2
    /\ mb.attempts[1].object = "o" /\ ~mb.attempts[1].called
    /\ Len(mb.attempts[2].bucket) = 63 /\ mb.attempts[2].called

\* every argument of the call is non-blank
targetsNonEmpty == \A i \in 1..Len(mb.URLs) : TrimSpace(mb.URLs[i]) # ""

\* C25: for every list of non-empty targets mainMakeBucket attempts
\* MakeBucket on every target exactly once, in the order of the arguments; a
\* failure on one target, of the creation of its client or of its bucket,
\* is reported and the remaining targets are still attempted; the messages
\* of success and failure come in the order of the arguments.
C25_EveryTargetAttempted ==
    (targetsNonEmpty /\ mb.pc \in {"return", "exit"}) =>
        /\ [i \in 1..Len(mb.attempts) |-> mb.attempts[i].target] = mb.URLs
        /\ [i \in 1..Len(mb.msgs) |-> mb.msgs[i].target] = mb.URLs

\* the part of C25 the loop keeps: a MakeBucket that fails is reported and
\* the loop goes on; while the command runs, the attempts and the messages
\* are those of the first targets, in order
C25_BucketFailuresContinue ==
    /\ [i \in 1..Len(mb.attempts) |-> mb.attempts[i].target]
           = SubSeq(mb.URLs, 1, Len(mb.attempts))
    /\ (\A i \in 1..Len(mb.msgs) : mb.msgs[i].kind # "fatal") =>
           /\ [i \in 1..Len(mb.msgs) |-> mb.msgs[i].target] = SubSeq(mb.URLs, 1, Len(mb.msgs))
           /\ mb.pc = "return" => Len(mb.attempts) = Len(mb.URLs)

(***************************************************************************)
(* C26.  With no config document, every migration step and every fix-up    *)
(* pass returns without saving and without creating a document: no         *)
(* function that ran on a missing document saved, and after migrateConfig  *)
(* and after fixConfig there is still no document.                         *)
(***************************************************************************)
C26_NoDocumentNoStep ==
    /\ (step.op # "none" /\ ~step.before.exists)
            => (~step.saved /\ config = NoConfig)
    /\ \A i \in DOMAIN log :
            ~log[i].before.exists => (log[i].saves = 0 /\ log[i].after = NoConfig)

\* migrateConfig and then fixConfig have returned, started with no document
C26_Witness ==
    /\ Len(log) = 2
    /\ log[1].fn = "migrateConfig" /\ ~log[1].before.exists
    /\ log[2].fn = "fixConfig" /\ ~log[2].before.exists
    /\ step.op = "fixConfigV6ForHosts"

(***************************************************************************)
(* C27.  The steps 2 -> 3, 3 -> 4 and 4 -> 5 carry the hosts through: the  *)
(* document a step saved has the host keys of the document it loaded, each *)
(* host with the access key and the secret key it had; after 3 -> 4 every  *)
(* host has the signature v4, after 4 -> 5 every host has the API S3v4.    *)
(***************************************************************************)
\* the access key and the secret key of a host entry, under the names of the
\* entry's own schema (version 2, version 3, versions 4 to 6)
accessKeyIDOf(entry) ==
    IF "AccessKeyID" \in DOMAIN entry THEN entry["AccessKeyID"]
    ELSE IF "access-key-id" \in DOMAIN entry THEN entry["access-key-id"]
    ELSE entry["accessKeyId"]

secretAccessKeyOf(entry) ==
    IF "SecretAccessKey" \in DOMAIN entry THEN entry["SecretAccessKey"]
    ELSE IF "secret-access-key" \in DOMAIN entry THEN entry["secret-access-key"]
    ELSE entry["secretAccessKey"]

HostCarryingSteps == {"migrateConfigV2ToV3", "migrateConfigV3ToV4", "migrateConfigV4ToV5"}

C28_FixIdempotent ==
    \A i \in CallsOf("fixConfig") :
        (i + 1 \in CallsOf("fixConfig") /\ log[i].before.exists
            /\ versionOf(log[i].before) = "6")
            => log[i + 1].after = log[i].after

\* two runs in succession, the first of which rewrote a glob key and a bare
\* host key of a version-6 document
C28_Witness ==
    \E i \in CallsOf("fixConfig") :
        /\ i + 1 \in CallsOf("fixConfig")
        /\ versionOf(log[i].before) = "6"
        /\ DOMAIN hostsOf(log[i].before) = {"*s3*amazonaws.com", "play.minio.io:9000"}
        /\ DOMAIN hostsOf(log[i].after) =
                {"https://s3.amazonaws.com", "https://play.minio.io:9000"}
        /\ log[i + 1].saves > 0

(***************************************************************************)
(* The migration and the fix-up passes on documents a user or an older     *)
(* release left behind: version-5 and version-6 documents whose host keys  *)
(* start with the letters http without being scheme-qualified or concrete, *)
(* and documents of the shape fixConfigV3 looks for (untagged field names  *)
(* and the fields ACL and Access) under several version tags.              *)
(***************************************************************************)
DocHostKeys == {"httpbin.org:9000", "https://*.example.com", "localhost:*", "s3.amazonaws.com"}

DocHosts ==
    UNION {[keys -> Credentials] :
            keys \in {ks \in SUBSET DocHostKeys : Cardinality(ks) <= MaxHosts}}

BrokenHosts == UNION {[keys -> Credentials] : keys \in SUBSET {"s3.amazonaws.com"}}

BrokenVersions == {"3", "4", "6"}

InitDocs ==
    {quickSave([Version |-> version,
                Aliases |-> aliases,
                Hosts   |-> [h \in DOMAIN hosts |-> hostOf(version, hosts[h])]],
               typeOf(version)) :
        version \in {"5", "6"}, aliases \in InitAliases, hosts \in DocHosts}
    \cup
    {quickSave([Version |-> version, ACL |-> acl, Access |-> access,
                Aliases |-> aliases, Hosts |-> hosts], brokenConfigV3) :
        version \in BrokenVersions, acl \in {"", "private"}, access \in {"", "readonly"},
        aliases \in InitAliases, hosts \in BrokenHosts}

InitDoc ==
    /\ config \in InitDocs
    /\ cur = Idle
    /\ log = <<>>
    /\ step = NoStep
    /\ goos = "linux"
    /\ parse = NoParse
    /\ join = NoJoin
    /\ args = NoArgs
    /\ stat = NoStat
    /\ cp = NoCopy
    /\ resolve = NoResolve
    /\ s3Clnt = NoClient
    /\ api = NoApi
    /\ mu = 0
    /\ calls = NoCalls
    /\ chans = NoChans
    /\ mb = NoMb
    /\ trip = NoTrip
    /\ add = NoAdd

SpecDocs == InitDoc /\ [][Next]_vars

(***************************************************************************)
(* C29.  After fixConfig on a version-6 document that the 5 -> 6 step      *)
(* produced, every host key is scheme-qualified and concrete: it starts    *)
(* with http:// or https:// and holds no glob character; the two keys the  *)
(* 5 -> 6 step synthesized are there as https://s3.amazonaws.com and       *)
(* https://storage.googleapis.com.                                         *)
(***************************************************************************)
\* fixConfig returned, called on the document the migrateConfig before it
\* brought to version 6
fixedAfterV5ToV6(i) ==
    /\ i \in CallsOf("fixConfig")
    /\ i - 1 \in CallsOf("migrateConfig")
    /\ log[i - 1].saves > 0
    /\ versionOf(log[i].before) = "6"

schemeQualified(host) ==
    /\ HasPrefix(host, "http://") \/ HasPrefix(host, "https://")
    /\ ~Contains(host, "*")

C29_HostKeysConcrete ==
    \A i \in DOMAIN log :
        fixedAfterV5ToV6(i) =>
            /\ \A host \in DOMAIN hostsOf(log[i].after) : schemeQualified(host)
            /\ {"https://s3.amazonaws.com", "https://storage.googleapis.com"}
                    \subseteq DOMAIN hostsOf(log[i].after)

\* what the two passes do establish: every key that is left starts with the
\* letters http, and the two synthesized keys are there in their https form
C29_HostKeysStartWithHttp ==
    \A i \in DOMAIN log :
        fixedAfterV5ToV6(i) =>
            /\ \A host \in DOMAIN hostsOf(log[i].after) : HasPrefix(host, "http")
            /\ {"https://s3.amazonaws.com", "https://storage.googleapis.com"}
                    \subseteq DOMAIN hostsOf(log[i].after)

(***************************************************************************)
(* C30.  fixConfigV3 touches version-3 documents only: on a document whose *)
(* version tag is not 3 it saves nothing and leaves the document, version  *)
(* tag included, as it was.                                                *)
(***************************************************************************)
C30_FixV3OnlyVersion3 ==
    (step.op = "fixConfigV3" /\ step.before.exists /\ versionOf(step.before) # "3")
        => (~step.saved /\ config = step.before)

\* what the condition of line 470 does establish: fixConfigV3 saves exactly
\* when the document binds an alias or holds an ACL under the untagged names,
\* or holds an Access field and the version tag 3
C30_FixV3SavesOnFields ==
    step.op = "fixConfigV3" /\ step.before.exists =>
        LET obj == step.before.obj
        IN  step.saved <=>
                \/ DOMAIN FieldOf(obj, "Aliases", EmptyMap) # {}
                \/ FieldOf(obj, "ACL", "") # ""
                \/ FieldOf(obj, "Access", "") # "" /\ versionOf(step.before) = "3"

(***************************************************************************)
(* C31.  Directory inference is for non-recursive listings only.  In the   *)
(* object listing of listInRoutine the Content of a key is a directory if  *)
(* and only if the key ends in the separator; in the listings of           *)
(* listRecursiveInRoutine no Content of an object key is a directory, and  *)
(* in its root listing the Contents of the buckets, and only those, are.   *)
(***************************************************************************)
\* the bucket and the object the client's location names
clientBucket == url2BucketAndObject(s3Clnt)[1]

clientObject == url2BucketAndObject(s3Clnt)[2]

\* listInRoutine goes to ListObjects: not the root, not a bucket, no object
listsObjects ==
    /\ ~(clientBucket = "" /\ clientObject = "")
    /\ ~(clientBucket # "" /\ ~HasSuffix(s3Clnt.hostURL.Path, s3Clnt.hostURL.Separator)
            /\ clientObject = "")
    /\ api.statObject # "ok"

C31_DirectoryInference ==
    \A p \in Callers :
        chans[p].made =>
            LET contents == chans[p].contents
                keys == UpToFirstErr(api.objects)
                perBucket == 1 + Len(api.objects)
            IN  /\ (chans[p].routine = "listInRoutine" /\ listsObjects) =>
                    /\ Len(contents) = Len(keys)
                    /\ \A i \in 1..Len(contents) :
                        ~contents[i].Err =>
                            (contents[i].Type = ModeDir
                                <=> HasSuffix(keys[i].Key, s3Clnt.hostURL.Separator))
                /\ (chans[p].routine = "listRecursiveInRoutine"
                        /\ ~(clientBucket = "" /\ clientObject = "")) =>
                    \A i \in 1..Len(contents) : contents[i].Type # ModeDir
                /\ (chans[p].routine = "listRecursiveInRoutine"
                        /\ clientBucket = "" /\ clientObject = "") =>
                    \A i \in 1..Len(contents) :
                        ~contents[i].Err =>
                            (contents[i].Type = ModeDir <=> (i - 1) % perBucket = 0)

\* a non-recursive listing has sent a directory for the key d/ and a file for
\* the key j
C31_Witness ==
    /\ api.objects = <<ObjectStat("d/"), ObjectStat("j")>>
    /\ chans[1].routine = "listInRoutine"
    /\ listsObjects
    /\ chans[1].sent = 2
    /\ received(1)[1].Type = ModeDir
    /\ received(1)[2].Type = ModeRegular

\* a recursive listing of a bucket has sent the key d/ as a file
C31_RecursiveSentFile ==
    /\ api.objects = <<ObjectStat("d/"), ObjectStat("j")>>
    /\ chans[1].routine = "listRecursiveInRoutine"
    /\ clientBucket # ""
    /\ chans[1].sent = 2
    /\ received(1)[1].Type = ModeRegular

(***************************************************************************)
(* An entry of a listing resolved again: a routine builds the Content of a *)
(* backend key, the consumer makes a client for the Content's location     *)
(* (its URL rendered by String and parsed by New) and url2BucketAndObject  *)
(* names the bucket and the object a Stat through that client addresses.   *)
(***************************************************************************)
\* the end of a key below the prefix the listing was asked for: a file, a
\* common prefix, a file below a common prefix
KeyEnds == {"j", "d/", "d/j"}

\* the prefixes listed: the whole bucket, one prefix
Prefixes == {"", "p/"}

\* the location listed: bucket and prefix on the path-style host of a
\* provider, or the bucket in the host name
ListedURL(provider, virtual, bucket, prefix) ==
    IF virtual THEN "https://" \o bucket \o "." \o provider \o "/" \o prefix
    ELSE "https://" \o provider \o "/" \o bucket \o "/" \o prefix

InitTrip ==
    /\ goos = "linux"
    /\ trip \in {[NoTrip EXCEPT !.pc = "list", !.bucket = b, !.key = prefix \o end,
                                !.recursive = r,
                                !.lister = ListedURL(provider, virtual, b, prefix)] :
                    b \in Labels, prefix \in Prefixes, end \in KeyEnds, r \in BOOLEAN,
                    provider \in Providers, virtual \in BOOLEAN}
    /\ config = NoConfig
    /\ cur = Idle
    /\ log = <<>>
    /\ step = NoStep
    /\ parse = NoParse
    /\ join = NoJoin
    /\ args = NoArgs
    /\ stat = NoStat
    /\ cp = NoCopy
    /\ resolve = NoResolve
    /\ s3Clnt = NoClient
    /\ api = NoApi
    /\ mu = 0
    /\ calls = NoCalls
    /\ chans = NoChans
    /\ mb = NoMb
    /\ add = NoAdd

\* lines 718-744 and 786-808: the Content the routine sends for the key, the
\* bucket being the one the backend was asked for
tripList ==
    /\ trip.pc = "list"
    /\ LET c == New(trip.lister)
       IN  trip' = [trip EXCEPT
               !.pc = "resolve",
               !.content = keyContents(c, trip.bucket, <<ObjectStat(trip.key)>>,
                                       ModeRegular, ~trip.recursive)[1]]
    /\ UNCHANGED <<config, cur, log, step, goos, parse, join, args, stat, cp, resolve, s3Clnt, api, mu, calls, chans, mb, add>>

\* the consumer's client for the entry, and the names it resolves to
tripUrl2BucketAndObject ==
    /\ trip.pc = "resolve"
    /\ trip' = [trip EXCEPT
           !.pc = "done",
           !.name = url2BucketAndObject(New(String(trip.content.URL)))]
    /\ UNCHANGED <<config, cur, log, step, goos, parse, join, args, stat, cp, resolve, s3Clnt, api, mu, calls, chans, mb, add>>

NextTrip == tripList \/ tripUrl2BucketAndObject

SpecTrip == InitTrip /\ [][NextTrip]_vars

(***************************************************************************)
(* C32.  Entry locations round-trip: the location of the entry a listing   *)
(* of bucket B produced for the key K resolves to the bucket B and the     *)
(* object K, on path-style and on virtual-host-style hosts.                *)
(***************************************************************************)
C32_LocationsRoundTrip ==
    trip.pc = "done" => trip.name = <<trip.bucket, trip.key>>

\* what does hold: the location of a key that does not end in the separator
\* resolves to the bucket and the key, when the host is path-style or the
\* bucket label does not contain "s3"
C32_FileKeysRoundTrip ==
    (trip.pc = "done" /\ ~HasSuffix(trip.key, "/")
        /\ (~isVirtualHostStyle(trip.content.URL.Host) \/ ~Contains(trip.bucket, "s3")))
        => trip.name = <<trip.bucket, trip.key>>

\* the counterexample of C32 that does not rest on the bucket label: a key
\* that ends in the separator, on a path-style host
C32_PathStyleRoundTrip ==
    (trip.pc = "done" /\ ~isVirtualHostStyle(trip.content.URL.Host))
        => trip.name = <<trip.bucket, trip.key>>

(***************************************************************************)
(* C33.  Version order: a step of migrateConfig that saves takes the       *)
(* version tag from its source version to the next version of the chain    *)
(* 1.0.0, 1.0.1, 2, 3, 4, 5, 6, a step that does not save leaves the tag,  *)
(* and a migrateConfig that started k versions before 6 has saved k times. *)
(***************************************************************************)
\* the place of a version in the chain
versionIndex(version) == CHOOSE i \in DOMAIN Versions : Versions[i] = version

C33_VersionOrder ==
    /\ (step.op \in DOMAIN SourceVersion /\ step.before.exists) =>
            IF step.saved
            THEN /\ versionOf(step.before) = SourceVersion[step.op]
                 /\ versionIndex(versionOf(config)) = versionIndex(versionOf(step.before)) + 1
            ELSE versionOf(config) = versionOf(step.before)
    /\ \A i \in CallsOf("migrateConfig") :
            log[i].before.exists =>
                log[i].saves = Len(Versions) - versionIndex(versionOf(log[i].before))

\* migrateConfig has returned from a 1.0.0 document after six saves, the
\* last of which took the tag from 5 to 6
C33_Witness ==
    /\ step.op = "migrateConfigV5ToV6"
    /\ step.saved
    /\ versionOf(step.before) = "5"
    /\ versionOf(config) = "6"
    /\ \E i \in CallsOf("migrateConfig") :
        /\ i = Len(log)
        /\ versionOf(log[i].before) = "1.0.0"
        /\ log[i].saves = 6

(***************************************************************************)
(* C34.  The 5 -> 6 compaction depends on the order in which range visits  *)
(* the hosts: when migrateConfigV5ToV6 is about to run on a version-5      *)
(* document with two host keys containing "s3" whose entries differ, it    *)
(* has two outcomes that persist different version-6 documents.            *)
(***************************************************************************)
\* the host keys of the stored document that contain "s3"
s3Keys(doc) == {host \in DOMAIN hostsOf(doc) : Contains(host, "s3")}

\* a version-5 document with two such keys whose entries differ
twoS3Hosts(doc) ==
    /\ doc.exists
    /\ versionOf(doc) = "5"
    /\ \E h1, h2 \in s3Keys(doc) : hostsOf(doc)[h1] # hostsOf(doc)[h2]

C34_OrderDependent ==
    (cur.fn = "migrateConfig" /\ cur.pc = 6 /\ twoS3Hosts(config)) =>
        \E r1, r2 \in V5ToV6 :
            /\ r1.saved /\ r2.saved
            /\ versionOf(r1.config) = "6" /\ versionOf(r2.config) = "6"
            /\ r1.config # r2.config

\* the step ran on a document with the user's credentials under
\* s3.amazonaws.com and the default ones under https://s3.amazonaws.com, and
\* visited the latter first: that entry is deleted and *s3*amazonaws.com holds
\* the default credentials
C34_Witness ==
    /\ V5ToV6Ran
    /\ twoS3Hosts(step.before)
    /\ DOMAIN hostsOf(step.before) = {"s3.amazonaws.com", "https://s3.amazonaws.com"}
    /\ accessKeyOf(hostsOf(step.before)["s3.amazonaws.com"]) = "AKIAUSER"
    /\ hasDefaultCredentials(hostsOf(step.before)["https://s3.amazonaws.com"])
    /\ "https://s3.amazonaws.com" \notin DOMAIN hostsOf(config)
    /\ hasDefaultCredentials(hostsOf(config)["*s3*amazonaws.com"])

\* the same document with s3.amazonaws.com visited first: nothing is deleted
\* and *s3*amazonaws.com holds the user's credentials
C34_OtherOrder ==
    /\ V5ToV6Ran
    /\ DOMAIN hostsOf(step.before) = {"s3.amazonaws.com", "https://s3.amazonaws.com"}
    /\ accessKeyOf(hostsOf(step.before)["s3.amazonaws.com"]) = "AKIAUSER"
    /\ hasDefaultCredentials(hostsOf(step.before)["https://s3.amazonaws.com"])
    /\ "https://s3.amazonaws.com" \in DOMAIN hostsOf(config)
    /\ accessKeyOf(hostsOf(config)["*s3*amazonaws.com"]) = "AKIAUSER"

(***************************************************************************)
(* C35.  Lock discipline of Stat: a Stat that has left the mutex region,   *)
(* by whichever return path, has unlocked the mutex exactly once and does  *)
(* not hold it; before that it has not unlocked; and Stat unlocks only a   *)
(* mutex it holds.                                                         *)
(***************************************************************************)
C35_StatLockDiscipline ==
    /\ [](\A p \in Callers :
            calls[p].op = "Stat" =>
                /\ calls[p].pc = "Stat" => calls[p].unlocks = 0
                /\ calls[p].pc = "Stat.locked" => (calls[p].unlocks = 0 /\ mu = p)
                /\ calls[p].pc \in {"Stat.fallback", "returned"}
                        => (calls[p].unlocks = 1 /\ mu # p))
    /\ [][\A p \in Callers :
            (calls[p].op = "Stat" /\ calls'[p].unlocks # calls[p].unlocks) =>
                /\ mu = p
                /\ mu' = 0
                /\ calls'[p].unlocks = calls[p].unlocks + 1]_vars

\* Stat has returned a directory from the listing it falls back to, which it
\* ran while the other caller held the mutex
C35_Witness ==
    /\ calls[1].op = "Stat"
    /\ calls[1].pc = "returned"
    /\ api.statObject = "NoSuchKey"
    /\ calls[1].ret.content.Type = ModeDir
    /\ calls[1].unlocks = 1
    /\ mu = 2

(***************************************************************************)
(* Two concurrent callers with the scheduling of the Go runtime: a caller  *)
(* that can take a step of Stat or of the body of List takes it, a caller  *)
(* waiting at Lock gets the mutex when it stays free.  Nothing is assumed  *)
(* about the routines or about callers receiving.  statLocked(p) and       *)
(* listBody(p) are enabled exactly when the caller is at "Stat.locked" or  *)
(* "List.locked" and take it from there, so their weak fairness is written *)
(* as "the caller is not at that place for ever".                          *)
(***************************************************************************)
FairSpecS3 ==
    /\ SpecS3
    /\ \A p \in Callers :
          /\ WF_vars(statLock(p) \/ statFallback(p) \/ listLock(p))
          /\ []<>(calls[p].pc # "Stat.locked")
          /\ []<>(calls[p].pc # "List.locked")

(***************************************************************************)
(* C36.  No deadlock between List and Stat: a caller whose List has handed *)
(* out its channel does not hold the mutex, whether the channel is being   *)
(* received from, is drained or is abandoned; so every Stat returns and    *)
(* every List hands out its channel, whatever the other caller's listing   *)
(* does.                                                                   *)
(***************************************************************************)
\* caller p is inside Stat, or inside List before it has returned the channel
inCall(p) == calls[p].pc \in {"Stat", "Stat.locked", "Stat.fallback", "List", "List.locked"}

C36_NoDeadlock ==
    /\ [](\A p \in Callers :
            calls[p].pc \in {"receiving", "abandoned", "drained"} => mu # p)
    /\ \A p \in Callers : inCall(p) ~> ~inCall(p)

\* the first caller has abandoned a listing whose routine still has a Content
\* to send, and the second caller's Stat, which was waiting meanwhile, has returned
C36_Witness ==
    /\ calls[1].pc = "abandoned"
    /\ chans[1].pc = "send"
    /\ calls[2].op = "Stat"
    /\ calls[2].pc = "returned"
    /\ calls[2].unlocks = 1

(***************************************************************************)
(* C37.  checkCopySyntaxTypeC never reads the stat result of a source      *)
(* whose stat failed: when the stat of the source returns an error and the *)
(* source prefix exists, the check goes on without dereferencing the       *)
(* absent result.                                                          *)
(***************************************************************************)
C37_NoReadOfFailedStat ==
    cp.branch = "checkCopySyntaxTypeC" => cp.exit # "panic"

\* the state the claim is about: the check was called with one source whose
\* stat failed and whose prefix exists
C37_FailedStatWithPrefix ==
    /\ cp.branch = "checkCopySyntaxTypeC"
    /\ Len(args.srcURLs) = 1
    /\ statErr(args.srcURLs[1])
    /\ isURLPrefixExists(args.srcURLs[1])

\* what holds: in that state the check has read srcContent.Type (line 119)
\* and nothing else; the target was not looked at
C37_FailedStatIsRead ==
    C37_FailedStatWithPrefix =>
        /\ cp.exit = "panic"
        /\ cp.stats = {<<"checkCopySyntaxTypeC", args.srcURLs[1]>>}

(***************************************************************************)
(* C38.  Filesystem locations hold the raw string: when NewURL recognised  *)
(* no scheme in its input and made a Filesystem URL, the Path of the URL   *)
(* is the input and String() returns the input, inputs that contain '?'    *)
(* and inputs that begin with "//" included.                               *)
(***************************************************************************)
\* String has run on the Filesystem URL of an input in which getScheme
\* recognised no scheme
filesystemWithoutScheme ==
    /\ parse.pc \in {"NewURL2", "done"}
    /\ getScheme(parse.urlStr)[1] = ""
    /\ parse.url.Type = Filesystem

C38_FilesystemHoldsRaw ==
    filesystemWithoutScheme =>
        /\ parse.url.Path = parse.urlStr
        /\ parse.str = parse.urlStr

\* what holds: String returns the Path, and the Path is the input up to its
\* first '?', without the part from "//" up to the next '/' when that part
\* leads the input
C38_FilesystemHoldsRest ==
    filesystemWithoutScheme =>
        LET rest == splitSpecial(parse.urlStr, "?", TRUE)[1]
            path == IF HasPrefix(rest, "//")
                    THEN LET tail == splitSpecial(SubSeq(rest, 3, Len(rest)), "/", FALSE)[2]
                         IN  IF tail = "" THEN "/" ELSE tail
                    ELSE rest
        IN  /\ parse.url.Path = path
            /\ parse.str = path

\* the inputs without '?' that do not begin with "//" are held as they are
C38_PlainInputsHeld ==
    (filesystemWithoutScheme /\ ~Contains(parse.urlStr, "?")
        /\ ~HasPrefix(parse.urlStr, "//"))
        => (parse.url.Path = parse.urlStr /\ parse.str = parse.urlStr)

(***************************************************************************)
(* mc config add alias (part_000, lines 149-181).  addAlias decodes the    *)
(* stored document as a configV2, makes its checks, binds the alias in the *)
(* decoded value and saves that value.                                     *)
(***************************************************************************)
MaxAdds == 2      \* runs of mc config add alias in one behaviour

TrimSuffix(s, p) == IF HasSuffix(s, p) THEN SubSeq(s, 1, Len(s) - Len(p)) ELSE s

\* the reserved names, as the message of line 165 lists them
isAliasReserved(aliasName) ==
    aliasName \in {"help", "private", "readonly", "public", "authenticated"}

\* a letter followed by one or more letters, digits or hyphens
isValidAliasName(aliasName) ==
    /\ Len(aliasName) >= 2
    /\ IsLetter(Char(aliasName, 1))
    /\ \A i \in 2..Len(aliasName) :
          LET c == Char(aliasName, i) IN IsLetter(c) \/ IsDigit(c) \/ c = "-"

\* writeConfig(newConfig): the value is saved as the type it has
writeConfig(val, type) == quickSave(val, type)

\* lines 150-180: the exit addAlias takes and the document it leaves
addAliasOutcome(alias, url) ==
    LET newConf == quickLoad(configV2, newConfigV2)
        trimmed == TrimSuffix(url, "/")
    IN  IF alias = "" \/ url = "" THEN [exit |-> "empty", config |-> config]
        ELSE IF ~isMcConfigExists THEN [exit |-> "load", config |-> config]
        ELSE IF ~HasPrefix(trimmed, "http") THEN [exit |-> "url", config |-> config]
        ELSE IF isAliasReserved(alias) THEN [exit |-> "reserved", config |-> config]
        ELSE IF ~isValidAliasName(alias) THEN [exit |-> "invalid", config |-> config]
        ELSE IF alias \in DOMAIN newConf.Aliases
        THEN [exit |-> "exists", config |-> config]
        ELSE [exit |-> "written",
              config |-> writeConfig([newConf EXCEPT !.Aliases = Put(@, alias, trimmed)],
                                     configV2)]

AliasNames == {"", "gcs", "help", "zone", "9z"}

AliasArgs == {"", "https://play.minio.io:9000/", "https://zone.example.com",
              "ftp://example.com"}

\* the documents mc config finds: version 6, as migrateConfig leaves or keeps them
InitAdd ==
    /\ config \in {c \in InitConfigs : FieldOf(c.obj, "version", "") = "6"} \cup {NoConfig}
    /\ cur = Idle
    /\ log = <<>>
    /\ step = NoStep
    /\ goos = "linux"
    /\ parse = NoParse
    /\ join = NoJoin
    /\ args = NoArgs
    /\ stat = NoStat
    /\ cp = NoCopy
    /\ resolve = NoResolve
    /\ s3Clnt = NoClient
    /\ api = NoApi
    /\ mu = 0
    /\ calls = NoCalls
    /\ chans = NoChans
    /\ mb = NoMb
    /\ trip = NoTrip
    /\ add = NoAdd

addAlias ==
    /\ add.runs < MaxAdds
    /\ \E alias \in AliasNames, url \in AliasArgs :
          LET r == addAliasOutcome(alias, url)
          IN  /\ config' = r.config
              /\ add' = [pc |-> "done", alias |-> alias, url |-> url, exit |-> r.exit,
                         before |-> config, runs |-> add.runs + 1]
    /\ UNCHANGED <<cur, log, step, goos, parse, join, args, stat, cp, resolve, s3Clnt, api, mu, calls, chans, mb, trip>>

NextAdd == addAlias

SpecAdd == InitAdd /\ [][NextAdd]_vars

(***************************************************************************)
(* C39.  addAlias never overwrites and never half-writes: when the alias   *)
(* name is already bound in the document, or the alias or the URL is       *)
(* empty, or the URL does not start with http, or the name is reserved or  *)
(* invalid, the run aborts and the document is unchanged; otherwise what   *)
(* is written differs from the previous document only by the added alias.  *)
(***************************************************************************)
\* the arguments of the run that the checks of lines 150-169 refuse
refusedArgs ==
    \/ add.alias = ""
    \/ add.url = ""
    \/ ~HasPrefix(add.url, "http")
    \/ isAliasReserved(add.alias)
    \/ ~isValidAliasName(add.alias)

\* doc has the version, the hosts and the aliases of old, and the one binding more
onlyAliasAdded(doc, old, alias, url) ==
    /\ versionOf(doc) = versionOf(old)
    /\ hostsOf(doc) = hostsOf(old)
    /\ aliasesOf(doc) = Put(aliasesOf(old), alias, url)

C39_NeverOverwrites ==
    add.pc = "done" =>
        /\ (refusedArgs \/ add.alias \in DOMAIN aliasesOf(add.before))
              => (add.exit # "written" /\ config = add.before)
        /\ add.exit = "written"
              => onlyAliasAdded(config, add.before, add.alias, TrimSuffix(add.url, "/"))

\* a run that found the alias bound in the document and wrote all the same
C39_BoundAliasWritten ==
    /\ add.pc = "done"
    /\ add.alias \in DOMAIN aliasesOf(add.before)
    /\ add.exit = "written"
    /\ aliasesOf(add.before)[add.alias] # aliasesOf(config)[add.alias]

\* what holds: the refused arguments abort the run, a run that aborts leaves
\* the document alone, and a run writes only after every check has passed on
\* the document as configV2 decodes it
C39_RefusedArgsAbort ==
    add.pc = "done" =>
        /\ refusedArgs => add.exit # "written"
        /\ add.exit # "written" => config = add.before
        /\ add.exit = "written" =>
              /\ ~refusedArgs
              /\ add.alias \notin DOMAIN Unmarshal(add.before.obj, configV2, newConfigV2).Aliases

\* what holds: a document that addAlias wrote is not overwritten by the next run
C39_WrittenByAddAliasKept ==
    (add.pc = "done" /\ ~refusedArgs /\ "Aliases" \in DOMAIN add.before.obj
        /\ add.alias \in DOMAIN add.before.obj["Aliases"])
        => (add.exit = "exists" /\ config = add.before)

====
